---------------------------- MODULE Spec2Model ----------------------------
(***************************************************************************)
(* A model of the Substance 3D command-line wrappers: the command runner   *)
(* (src/utils/__init__.py), the cooker and renderer adapters               *)
(* (src/utils/sbscooker.py, src/utils/sbsrender.py) and the batch node     *)
(* (src/nodes/substance_batch_processor.py).                               *)
(*                                                                         *)
(* Each subsystem has its own specification over the shared variables:     *)
(*   SpecBatch    process_batch and its worker pool                        *)
(*   SpecCook     SubstanceCookerTool.cook                                 *)
(*   SpecRender   SubstanceRenderTool.render                               *)
(*   SpecOrganize SubstanceRenderTool._organize_output_files               *)
(*   SpecRunner   SubstanceToolBase._run_command                           *)
(* The variables of the subsystems a specification does not run stay at    *)
(* their idle values.                                                      *)
(***************************************************************************)
EXTENDS Integers, Sequences, FiniteSets, TLC

VARIABLES
    \* ---- process_batch (substance_batch_processor.py)
    pc,               \* "idle" | "collecting" | "returned" | "raised"
    call,             \* the arguments of the running process_batch call
    units,            \* the futures, in submission order
    processed_files,  \* list of collected results (unit ids, in collection order)
    errors,           \* list of collected error messages
    output_structure, \* material name -> list of collected results (unit ids)
    cooker,           \* TRUE once SubstanceCookerTool() was constructed
    renderer,         \* TRUE once SubstanceRenderTool() was constructed
    spawned,          \* subprocesses spawned by the call so far
    completed,        \* finished futures as_completed has yet to yield, oldest first
    batch_summary,    \* the summary dict, once computed
    failure,          \* the message of the exception the call raised
    \* ---- _run_command (utils/__init__.py)
    run_pc,           \* "idle" | "waiting" | "returned" | "raised"
    run_call,         \* tool path, argument vector and timeout of the call
    run_result,       \* the CompletedProcess returned, or the error raised
    run_spawned,      \* processes the runner has spawned so far
    \* ---- SubstanceCookerTool.cook (utils/sbscooker.py)
    cook_pc,          \* "idle" | "returned" | "raised"
    cook_call,        \* the arguments of the cook() call
    cook_runs,        \* the _run_command invocations cook() made: [args, timeout]
    cook_dir,         \* the output directory: does it exist, the archives in it
    cook_result,      \* the dict returned, or the error raised
    \* ---- SubstanceRenderTool._organize_output_files (utils/sbsrender.py)
    org_pc,           \* "idle" | "looping" | "returned"
    org_files,        \* the output_files argument
    org_done,         \* how many of them the loop has categorized
    organized,        \* the organized dict being filled
    org_result,       \* the dict returned
    \* ---- SubstanceRenderTool.render (utils/sbsrender.py)
    render_pc,        \* "idle" | "running" | "returned" | "raised"
    render_call,      \* the arguments of the render() call
    render_runs,      \* the _run_command invocations render() made: [args, timeout]
    render_dir,       \* the output directory: does it exist, the files in it
    render_result,    \* the dict returned, or the error raised
    \* ---- an adapter and its tool handle (utils/__init__.py lines 27-86)
    ad_pc,            \* "idle" | "ready" | "failed"
    ad_call,          \* the constructor's arguments, the machine, what it built
    ad_tool,          \* the handle: [tool_name, tool_path], Null before construction
    ad_locator_runs,  \* how often _find_tool_path has run
    ad_runs,          \* the _run_command invocations of the adapter: [args, timeout]
    ad_ops,           \* the operations called on the adapter, with how each ended
    \* ---- the node entry points (src/nodes/*.py)
    node_runs,        \* the entry-point calls made so far, with what the host saw
    \* ---- the IS_CHANGED hooks (src/nodes/*.py)
    ic_file,          \* the file the hook looks at: does it exist, its mtime
    ic_checks,        \* the hook's calls so far, with the value each returned
    \* ---- SubstanceRenderTool.get_info (utils/sbsrender.py)
    info_pc,          \* "idle" | "scanning" | "returned" | "raised"
    info_stdout,      \* the lines of result.stdout
    info_done,        \* how many of them the loop has scanned
    info,             \* the info dict being filled
    info_result,      \* the dict returned, or the error raised
    \* ---- control_parameters (nodes/substance_parameter_controller.py)
    ctl_pc,           \* "idle" | "returned" | "raised"
    ctl_call,         \* the arguments, and what the random generator drew
    ctl_result,       \* final_parameters, or the error raised
    \* ---- PluginConfig (config.py)
    cfg_default,      \* the nested dicts DEFAULT_CONFIG refers to
    cfg_instance,     \* _config_instance.config, or Null before the first one
    cfg_file,         \* the content of the config file, or Null if absent
    cfg_last          \* the operation that ran last

batchVars == <<pc, call, units, processed_files, errors, output_structure,
               cooker, renderer, spawned, completed, batch_summary, failure>>

runVars == <<run_pc, run_call, run_result, run_spawned>>

cookVars == <<cook_pc, cook_call, cook_runs, cook_dir, cook_result>>

orgVars == <<org_pc, org_files, org_done, organized, org_result>>

renderVars == <<render_pc, render_call, render_runs, render_dir, render_result>>

adapterVars == <<ad_pc, ad_call, ad_tool, ad_locator_runs, ad_runs, ad_ops>>

nodeVars == <<node_runs>>

changedVars == <<ic_file, ic_checks>>

infoVars == <<info_pc, info_stdout, info_done, info, info_result>>

controlVars == <<ctl_pc, ctl_call, ctl_result>>

configVars == <<cfg_default, cfg_instance, cfg_file, cfg_last>>

vars == <<batchVars, runVars, cookVars, orgVars, renderVars, adapterVars,
          nodeVars, changedVars, infoVars, controlVars, configVars>>

\* what the actions of one subsystem leave alone
batchFrame == <<runVars, cookVars, orgVars, renderVars, adapterVars,
    nodeVars, changedVars, infoVars, controlVars,
    configVars>>
runnerFrame == <<batchVars, cookVars, orgVars, renderVars, adapterVars,
    nodeVars, changedVars, infoVars, controlVars,
    configVars>>
cookFrame == <<batchVars, runVars, orgVars, renderVars, adapterVars,
    nodeVars, changedVars, infoVars, controlVars,
    configVars>>
organizeFrame == <<batchVars, runVars, cookVars, renderVars, adapterVars,
    nodeVars, changedVars, infoVars, controlVars,
    configVars>>
renderFrame == <<batchVars, runVars, cookVars, orgVars, adapterVars,
    nodeVars, changedVars, infoVars, controlVars,
    configVars>>
adapterFrame == <<batchVars, runVars, cookVars, orgVars, renderVars,
    nodeVars, changedVars, infoVars, controlVars,
    configVars>>
nodeFrame == <<batchVars, runVars, cookVars, orgVars, renderVars, adapterVars,
    changedVars, infoVars, controlVars,
    configVars>>
changedFrame == <<batchVars, runVars, cookVars, orgVars, renderVars, adapterVars,
    nodeVars, infoVars, controlVars,
    configVars>>
infoFrame == <<batchVars, runVars, cookVars, orgVars, renderVars, adapterVars,
    nodeVars, changedVars, controlVars,
    configVars>>
controlFrame == <<batchVars, runVars, cookVars, orgVars, renderVars, adapterVars,
    nodeVars, changedVars, infoVars,
    configVars>>
configFrame == <<batchVars, runVars, cookVars, orgVars, renderVars, adapterVars,
    nodeVars, changedVars, infoVars, controlVars>>

None == "None"          \* Python's None where a string may stand
Nothing == <<>>         \* Python's None where a sequence may stand
Some(n) == <<n>>        \* an optional integer that is given
Null == [none |-> TRUE]  \* Python's None where a dict may stand

(***************************************************************************)
(* Bounds of the model.                                                    *)
(***************************************************************************)
MaxParamSets == 2     \* longest batch_parameters array
MaxUnits == 4         \* most units (files x parameter sets) of one batch
MaxFailures == 1      \* most units of one batch whose pipeline fails
MaxRunnerCalls == 2   \* runner calls followed in one behaviour
MaxInputs == 2        \* longest input_files list given to cook()
MaxOrganized == 2     \* longest list given to _organize_output_files
MaxEntries == 2       \* most image_entries given to render()
MaxOperations == 2    \* operations followed on one adapter
MaxLines == 2         \* most lines of the stdout get_info scans

(***************************************************************************)
(* Text helpers.  A path is a record [stem, ext]; str.lower() is modelled  *)
(* on the extension, where the code's endswith() tests read it.            *)
(***************************************************************************)
Lower(s) ==
    CASE s = "SBS" -> "sbs"
      [] s = "SBSAR" -> "sbsar"
      [] s = "PNG" -> "png"
      [] s = "TIFF" -> "tiff"
      [] OTHER -> s

EndsWith(path, ext) == Lower(path.ext) = ext

\* A Python string built from pieces (an f-string, a path) is the sequence
\* of its pieces; Str(s) is the plain string s.
Str(s) == <<s>>

\* a list of plain strings
Strs(list) == [i \in 1..Len(list) |-> Str(list[i])]

\* str(path) of a path record
PathStr(path) == <<IF path.abs THEN "/abs/" ELSE "", path.stem, ".", path.ext>>

\* the elements of a list
Range(s) == {s[i] : i \in 1..Len(s)}

RECURSIVE SeqsUpTo(_, _)
\* the sequences over S of length at most n
SeqsUpTo(S, n) ==
    IF n = 0 THEN {<<>>}
    ELSE LET shorter == SeqsUpTo(S, n - 1)
         IN shorter \cup {Append(s, x) : s \in {t \in shorter : Len(t) = n - 1}, x \in S}

RECURSIVE SelectIdx(_, _)
\* the subsequence of s at the positions in keep, order kept
SelectIdx(s, keep) ==
    IF s = <<>> THEN <<>>
    ELSE LET n == Len(s)
             front == SelectIdx(SubSeq(s, 1, n - 1), keep)
         IN IF n \in keep THEN Append(front, s[n]) ELSE front

(***************************************************************************)
(* The command runner: SubstanceToolBase._run_command (lines 88-132).      *)
(***************************************************************************)
CookTimeout == 300
RenderTimeout == 600

\* a timeout argument: Null (Python's None, wait for ever) or a number of seconds
Seconds(n) == [seconds |-> n]

\* what subprocess.run can do once the child is spawned: exit with a code
\* and its two captured streams, or (with a timeout) be abandoned
ExitCodes == {0, 1, 2}
StderrTexts == {"", "license error"}
StdoutTexts == {"", "done"}

ProcessOutcomes ==
    [kind : {"exit"}, returncode : ExitCodes, stdout : StdoutTexts, stderr : StderrTexts]
    \cup {[kind |-> "timeout"], [kind |-> "oserror"]}

\* line 120-123: the message of the error raised on a non-zero exit
CommandFailedMessage(proc) ==
    <<"Command failed with return code ", proc.returncode>>
    \o (IF proc.stderr # "" THEN <<": ", proc.stderr>> ELSE <<>>)

\* RunCommand with the return-code check of lines 119-123 left out
RunCommandUnchecked(tool_path, timeout, proc) ==
    IF proc.kind = "timeout"
    THEN [raised |-> TRUE, error |-> <<"Command timed out after ", timeout.seconds, " seconds">>]
    ELSE IF proc.kind = "missing"
    THEN [raised |-> TRUE, error |-> <<"Tool not found: ", tool_path>>]
    ELSE IF proc.kind = "oserror"
    THEN [raised |-> TRUE, error |-> <<"Command execution failed: ", "OSError">>]
    ELSE [raised |-> FALSE,
          result |-> [returncode |-> proc.returncode, stdout |-> proc.stdout,
                      stderr |-> proc.stderr]]

\* lines 109-132: what _run_command returns or raises for what subprocess.run
\* did.  The SubstanceToolError of line 123 is raised inside the try block and
\* is caught by the last except clause, which wraps its message once more.
RunCommand(tool_path, timeout, proc) ==
    IF proc.kind = "timeout"
    THEN [raised |-> TRUE, error |-> <<"Command timed out after ", timeout.seconds, " seconds">>]
    ELSE IF proc.kind = "missing"
    THEN [raised |-> TRUE, error |-> <<"Tool not found: ", tool_path>>]
    ELSE IF proc.kind = "oserror"
    THEN [raised |-> TRUE, error |-> <<"Command execution failed: ", "OSError">>]
    ELSE IF proc.returncode # 0
    THEN [raised |-> TRUE,
          error |-> <<"Command execution failed: ">> \o CommandFailedMessage(proc)]
    ELSE [raised |-> FALSE,
          result |-> [returncode |-> proc.returncode, stdout |-> proc.stdout,
                      stderr |-> proc.stderr]]

\* the calls the adapters make: (argument vector, timeout)
RunnerCalls ==
    {[args |-> Strs(<<"cook">>), timeout |-> Seconds(CookTimeout)],
     [args |-> Strs(<<"render">>), timeout |-> Seconds(RenderTimeout)],
     [args |-> Strs(<<"info">>), timeout |-> Null],
     [args |-> Strs(<<"--version">>), timeout |-> Null],
     [args |-> Strs(<<"--help">>), timeout |-> Null]}

ToolPaths == {"/usr/bin/sbscooker", "/usr/bin/sbsrender"}

RunnerIdle ==
    /\ run_pc = "idle"
    /\ run_call = Null
    /\ run_result = Null
    /\ run_spawned = 0

\* lines 105-117: subprocess.run is entered and spawns the child
RunSpawn ==
    /\ run_pc \in {"idle", "returned", "raised"}
    /\ run_spawned < MaxRunnerCalls
    /\ \E c \in RunnerCalls, tool \in ToolPaths :
         run_call' = [tool_path |-> tool, args |-> c.args, timeout |-> c.timeout,
                      spawns |-> 1]
    /\ run_pc' = "waiting"
    /\ run_result' = Null
    /\ run_spawned' = run_spawned + 1
    /\ UNCHANGED runnerFrame

\* lines 129-130: the executable is gone, no child is spawned
RunSpawnFails ==
    /\ run_pc \in {"idle", "returned", "raised"}
    /\ run_spawned < MaxRunnerCalls
    /\ \E c \in RunnerCalls, tool \in ToolPaths :
         /\ run_call' = [tool_path |-> tool, args |-> c.args, timeout |-> c.timeout,
                         spawns |-> 0]
         /\ run_result' = RunCommand(tool, c.timeout, [kind |-> "missing"])
                            @@ [process |-> [kind |-> "missing"]]
    /\ run_pc' = "raised"
    /\ UNCHANGED run_spawned
    /\ UNCHANGED runnerFrame

\* RunCompletes with a failed invocation tried once more
RunCompletesRetrying ==
    /\ run_pc = "waiting"
    /\ \E proc \in ProcessOutcomes :
         /\ proc.kind = "timeout" => run_call.timeout # Null
         /\ LET r == RunCommand(run_call.tool_path, run_call.timeout, proc)
            IN  IF r.raised /\ run_call.spawns < 2
                THEN /\ run_pc' = "waiting"
                     /\ run_call' = [run_call EXCEPT !.spawns = @ + 1]
                     /\ run_spawned' = run_spawned + 1
                     /\ UNCHANGED run_result
                ELSE /\ run_result' = r @@ [process |-> proc]
                     /\ run_pc' = IF r.raised THEN "raised" ELSE "returned"
                     /\ UNCHANGED <<run_call, run_spawned>>
    /\ UNCHANGED runnerFrame

\* lines 119-132: subprocess.run comes back, by the child's exit, by the
\* timeout (only when one was given) or by another error; every except
\* clause raises, none calls subprocess.run again
RunCompletes ==
    /\ run_pc = "waiting"
    /\ \E proc \in ProcessOutcomes :
         /\ proc.kind = "timeout" => run_call.timeout # Null
         /\ run_result' = RunCommand(run_call.tool_path, run_call.timeout, proc)
                            @@ [process |-> proc]
         /\ run_pc' = IF run_result'.raised THEN "raised" ELSE "returned"
    /\ UNCHANGED <<run_call, run_spawned>>
    /\ UNCHANGED runnerFrame

NextRunner ==
    \/ RunSpawn
    \/ RunSpawnFails
    \/ RunCompletes

(***************************************************************************)
(* Path helpers of SubstanceToolBase (lines 134-170).  A path given to an  *)
(* adapter is a record [stem, ext, exists, abs]; the empty string is the   *)
(* path with no stem and no extension.                                     *)
(***************************************************************************)
EmptyPath == [stem |-> "", ext |-> "", exists |-> FALSE, abs |-> FALSE]

\* Path(file_path).resolve(): the absolute form of the path
Resolve(path) == [path EXCEPT !.abs = TRUE]

\* ValidateFilePath without the existence test of lines 153-154
ValidateFilePathNoExistenceTest(path, must_exist) ==
    IF path = EmptyPath
    THEN [raise |-> "File path cannot be empty", path |-> path]
    ELSE [raise |-> None, path |-> Resolve(path)]

\* lines 134-156: the normalised path, or the error raised
ValidateFilePath(path, must_exist) ==
    IF path = EmptyPath
    THEN [raise |-> "File path cannot be empty", path |-> path]
    ELSE IF must_exist /\ ~path.exists
    THEN [raise |-> "File does not exist: ", path |-> path]
    ELSE [raise |-> None, path |-> Resolve(path)]

\* lines 158-170: the directory exists afterwards, with what it held
EnsureDirectory(dir) == [dir EXCEPT !.exists = TRUE]

(***************************************************************************)
(* The tool handle: SubstanceToolBase.__init__, _find_tool_path and        *)
(* _validate_tool (utils/__init__.py lines 27-86), and the operations of   *)
(* an adapter that use it.  A path is the sequence of its pieces.          *)
(***************************************************************************)
\* lines 42-53: common_paths, in list order
CommonPaths ==
    <<"C:\\Program Files\\Adobe\\Adobe Substance 3D Automation Toolkit\\bin",
      "C:\\Program Files (x86)\\Adobe\\Adobe Substance 3D Automation Toolkit\\bin",
      "/Applications/Adobe Substance 3D Automation Toolkit/bin",
      "/usr/local/bin",
      "/opt/Adobe/Adobe_Substance_3D_Automation_Toolkit/bin",
      "/usr/local/bin",
      "/usr/bin">>

ToolNames == {"sbscooker", "sbsrender"}

\* what may lie at a path: nothing, a directory, a file without the execute
\* permission, an executable file
FileStates == {"absent", "directory", "not_executable", "executable"}

\* the machine an adapter is constructed on: os.name, what shutil.which
\* finds (Nothing when the tool is not on PATH), what lies at the tool's
\* name in each of the common directories and at the caller's own path
OsNames == {"posix", "nt"}
WhichPath(tool_name) == <<"/home/user/bin", "/", tool_name>>
CustomPath(tool_name) == <<"/custom", "/", tool_name>>

Machines ==
    [os_name : OsNames,
     on_path : BOOLEAN,
     common : [Range(CommonPaths) -> {"absent", "not_executable", "executable"}],
     custom : FileStates]

\* lines 62-64: os.path.join(path, tool_name), with .exe on Windows
FullPath(path, tool_name, os_name) ==
    <<path, IF os_name = "nt" THEN "\\" ELSE "/", tool_name>>
    \o (IF os_name = "nt" THEN <<".exe">> ELSE <<>>)

\* what lies at a path of the machine
FileStateAt(path, tool_name, machine) ==
    IF path = WhichPath(tool_name)
    THEN IF machine.on_path THEN "executable" ELSE "absent"
    ELSE IF path = CustomPath(tool_name) THEN machine.custom
    ELSE IF \E i \in 1..Len(CommonPaths) :
               path = FullPath(CommonPaths[i], tool_name, machine.os_name)
    THEN machine.common[CommonPaths[CHOOSE i \in 1..Len(CommonPaths) :
               path = FullPath(CommonPaths[i], tool_name, machine.os_name)]]
    ELSE "absent"

\* os.path.isfile and os.access(path, os.X_OK)
IsFile(path, tool_name, machine) ==
    FileStateAt(path, tool_name, machine) \in {"not_executable", "executable"}
IsExecutable(path, tool_name, machine) ==
    FileStateAt(path, tool_name, machine) \in {"directory", "executable"}

\* line 56: shutil.which(tool_name), Nothing when the tool is not on PATH
Which(tool_name, machine) ==
    IF machine.on_path THEN WhichPath(tool_name) ELSE Nothing

\* lines 61-67: the first common path, from position i on, at which the tool
\* is a file and executable
RECURSIVE FirstCommonPath(_, _, _)
FirstCommonPath(i, tool_name, machine) ==
    IF i > Len(CommonPaths) THEN Nothing
    ELSE LET full_path == FullPath(CommonPaths[i], tool_name, machine.os_name)
         IN  IF IsFile(full_path, tool_name, machine)
                /\ IsExecutable(full_path, tool_name, machine)
             THEN full_path
             ELSE FirstCommonPath(i + 1, tool_name, machine)

\* FindToolPath taking any file for the tool, executable or not
FindToolPathAnyFile(tool_name, machine) ==
    LET Present(i) == IsFile(FullPath(CommonPaths[i], tool_name, machine.os_name),
                             tool_name, machine)
    IN  IF Which(tool_name, machine) # Nothing
        THEN [raise |-> None, path |-> Which(tool_name, machine)]
        ELSE IF \E i \in 1..Len(CommonPaths) : Present(i)
        THEN [raise |-> None,
              path |-> FullPath(CommonPaths[CHOOSE i \in 1..Len(CommonPaths) :
                                    Present(i) /\ \A j \in 1..(i - 1) : ~Present(j)],
                                tool_name, machine.os_name)]
        ELSE [raise |-> "Could not find ", path |-> Nothing]

\* lines 39-71: the path found, or the error raised
FindToolPath(tool_name, machine) ==
    IF Which(tool_name, machine) # Nothing
    THEN [raise |-> None, path |-> Which(tool_name, machine)]
    ELSE IF FirstCommonPath(1, tool_name, machine) # Nothing
    THEN [raise |-> None, path |-> FirstCommonPath(1, tool_name, machine)]
    ELSE [raise |-> "Could not find ", path |-> Nothing]

\* "if tool_path:" for a path argument: Nothing is None, <<"">> the empty string
TruthyPath(path) == path # Nothing /\ path # <<"">>

\* the tool_path arguments tried: none, the empty string, the caller's own path
ToolPathArguments(tool_name) == {Nothing, <<"">>, CustomPath(tool_name)}

\* the --version probe of line 83 and the calls of get_version and get_help
\* give the runner no timeout; get_info (sbsrender.py line 41) gives none either
VersionArgs == Strs(<<"--version">>)
HelpArgs == Strs(<<"--help">>)

\* lines 27-37 and 73-86: the handle the constructor leaves, how often it ran
\* the locator, the runner calls it made, or the error it raised
Construct(tool_name, tool_path, machine) ==
    LET found == IF TruthyPath(tool_path)
                 THEN [raise |-> None, path |-> tool_path]
                 ELSE FindToolPath(tool_name, machine)
        locator_runs == IF TruthyPath(tool_path) THEN 0 ELSE 1
    IN  IF found.raise # None
        THEN [raise |-> found.raise, tool |-> Null, locator_runs |-> locator_runs,
              runs |-> <<>>]
        ELSE IF ~IsFile(found.path, tool_name, machine)
        THEN [raise |-> "Tool not found at path: ", tool |-> Null,
              locator_runs |-> locator_runs, runs |-> <<>>]
        ELSE IF ~IsExecutable(found.path, tool_name, machine)
        THEN [raise |-> "Tool is not executable: ", tool |-> Null,
              locator_runs |-> locator_runs, runs |-> <<>>]
        ELSE [raise |-> None,
              tool |-> [tool_name |-> tool_name, tool_path |-> found.path],
              locator_runs |-> locator_runs,
              runs |-> <<[args |-> VersionArgs, timeout |-> Null]>>]

AdapterIdle ==
    /\ ad_pc = "idle"
    /\ ad_call = Null
    /\ ad_tool = Null
    /\ ad_locator_runs = 0
    /\ ad_runs = <<>>
    /\ ad_ops = <<>>

\* the state a constructor call leaves behind
ConstructEnds(tool_name, tool_path, machine) ==
    LET built == Construct(tool_name, tool_path, machine)
    IN  /\ ad_call' = [tool_name |-> tool_name, tool_path |-> tool_path,
                       machine |-> machine, raise |-> built.raise,
                       built |-> built.tool]
        /\ ad_tool' = built.tool
        /\ ad_locator_runs' = built.locator_runs
        /\ ad_runs' = built.runs
        /\ ad_pc' = IF built.raise # None THEN "failed" ELSE "ready"
        /\ UNCHANGED ad_ops
        /\ UNCHANGED adapterFrame

\* SubstanceCookerTool() or SubstanceRenderTool() on any machine
ConstructAnywhere ==
    /\ ad_pc = "idle"
    /\ \E tool_name \in ToolNames, machine \in Machines :
        \E tool_path \in ToolPathArguments(tool_name) :
            ConstructEnds(tool_name, tool_path, machine)

NextLocator == ConstructAnywhere

\* the machines the operations of an adapter are followed on: the tool on
\* PATH, in /usr/bin only, at the caller's path only, nowhere
AdapterMachines ==
    {m \in Machines :
        /\ m.os_name = "posix"
        /\ \A d \in Range(CommonPaths) \ {"/usr/bin"} : m.common[d] = "absent"
        /\ m.common["/usr/bin"] \in {"absent", "executable"}
        /\ m.custom \in {"absent", "executable"}
        /\ m.on_path => (m.common["/usr/bin"] = "absent" /\ m.custom = "absent")}

ConstructAdapter ==
    /\ ad_pc = "idle"
    /\ \E tool_name \in ToolNames, machine \in AdapterMachines :
        \E tool_path \in ToolPathArguments(tool_name) :
            ConstructEnds(tool_name, tool_path, machine)

\* the operations of an adapter and the timeout each gives the runner:
\* cook (sbscooker.py line 108), render (sbsrender.py line 187), get_info
\* (sbsrender.py line 41), get_version (line 190), get_help
OperationsOf(tool_name) ==
    IF tool_name = "sbscooker" THEN {"cook", "get_version", "get_help"}
    ELSE {"render", "get_info", "get_version", "get_help"}

OperationTimeout(op) ==
    IF op = "cook" THEN Seconds(CookTimeout)
    ELSE IF op = "render" THEN Seconds(RenderTimeout)
    ELSE Null

OperationArgs(op) ==
    IF op = "get_version" THEN VersionArgs
    ELSE IF op = "get_help" THEN HelpArgs
    ELSE IF op = "get_info" THEN Strs(<<"info">>)
    ELSE Strs(<<op>>)

\* how an operation may go: rejected by its own validation before the runner
\* (cook, render and get_info only), or run, the child exiting with code 0,
\* exiting with another code, timing out (only with a timeout) or missing
OperationOutcomes(op) ==
    (IF op \in {"cook", "render", "get_info"} THEN {[kind |-> "rejected"]} ELSE {})
    \cup {[kind |-> "exit", returncode |-> 0, stdout |-> "done", stderr |-> ""],
          [kind |-> "exit", returncode |-> 1, stdout |-> "", stderr |-> "license error"],
          [kind |-> "missing"]}
    \cup (IF OperationTimeout(op) # Null THEN {[kind |-> "timeout"]} ELSE {})

\* what the caller of the operation gets: get_version and get_help catch
\* every exception and return a text, the others let it through
OperationEnds(op, outcome, tool_path) ==
    IF outcome.kind = "rejected" THEN "raised"
    ELSE IF RunCommand(tool_path, OperationTimeout(op), outcome).raised
            /\ op \notin {"get_version", "get_help"}
    THEN "raised"
    ELSE "returned"

\* AdapterOperation with the locator run again after the executable went missing
AdapterOperationRelocating ==
    /\ ad_pc = "ready"
    /\ Len(ad_ops) < MaxOperations
    /\ \E op \in OperationsOf(ad_tool.tool_name) :
        \E outcome \in OperationOutcomes(op) :
            /\ ad_ops' = Append(ad_ops, [op |-> op, outcome |-> outcome.kind,
                                         ends |-> OperationEnds(op, outcome, ad_tool.tool_path)])
            /\ ad_runs' = IF outcome.kind = "rejected" THEN ad_runs
                          ELSE Append(ad_runs, [args |-> OperationArgs(op),
                                                timeout |-> OperationTimeout(op)])
            /\ IF outcome.kind = "missing"
               THEN /\ ad_locator_runs' = ad_locator_runs + 1
                    /\ ad_tool' = [ad_tool EXCEPT !.tool_path =
                                       WhichPath(ad_tool.tool_name)]
               ELSE UNCHANGED <<ad_tool, ad_locator_runs>>
    /\ UNCHANGED <<ad_pc, ad_call>>
    /\ UNCHANGED adapterFrame

\* one operation of a constructed adapter, from its call to its return or
\* raise: the runner is given self.tool_path (line 105); nothing assigns
\* tool_name or tool_path and nothing calls _find_tool_path
AdapterOperation ==
    /\ ad_pc = "ready"
    /\ Len(ad_ops) < MaxOperations
    /\ \E op \in OperationsOf(ad_tool.tool_name) :
        \E outcome \in OperationOutcomes(op) :
            /\ ad_ops' = Append(ad_ops, [op |-> op, outcome |-> outcome.kind,
                                         ends |-> OperationEnds(op, outcome, ad_tool.tool_path)])
            /\ ad_runs' = IF outcome.kind = "rejected" THEN ad_runs
                          ELSE Append(ad_runs, [args |-> OperationArgs(op),
                                                timeout |-> OperationTimeout(op)])
    /\ UNCHANGED <<ad_pc, ad_call, ad_tool, ad_locator_runs>>
    /\ UNCHANGED adapterFrame

NextAdapter ==
    \/ ConstructAdapter
    \/ AdapterOperation

(***************************************************************************)
(* SubstanceCookerTool.cook (sbscooker.py lines 21-134).                   *)
(***************************************************************************)
CookerPath == "/usr/bin/sbscooker"

\* the paths tried as cook() inputs
CookInputPaths ==
    {[stem |-> "A", ext |-> "sbs", exists |-> TRUE, abs |-> FALSE],
     [stem |-> "B", ext |-> "SBS", exists |-> TRUE, abs |-> FALSE],
     [stem |-> "C", ext |-> "sbs", exists |-> FALSE, abs |-> FALSE],
     [stem |-> "A", ext |-> "sbsar", exists |-> TRUE, abs |-> FALSE],
     EmptyPath}

OptimizationLevels == 0..3

\* extra keyword arguments: none, or one that is not a boolean
CookKwargs == {<<>>, << [key |-> "merge_graph", bool |-> FALSE, text |-> "1"] >>}

\* "--" + key.replace("_", "-")
DashedFlag(key) ==
    CASE key = "merge_graph" -> "--merge-graph"
      [] key = "output_size" -> "--output-size"
      [] OTHER -> "--unknown"

\* lines 99-105 (and sbsrender.py 178-184): the flags of the extra keywords
RECURSIVE KwargsFlags(_)
KwargsFlags(kwargs) ==
    IF kwargs = <<>> THEN <<>>
    ELSE LET kw == Head(kwargs)
             flag == IF kw.bool
                     THEN IF kw.text = "True" THEN <<Str(DashedFlag(kw.key))>> ELSE <<>>
                     ELSE <<Str(DashedFlag(kw.key)), Str(kw.text)>>
         IN  flag \o KwargsFlags(Tail(kwargs))

\* OptimizationFlags with the --merge-graph of level 2 forgotten
OptimizationFlagsLevel2AsLevel1(level) ==
    IF level = 0 THEN Strs(<<"--crc", "1", "--full", "0">>)
    ELSE IF level = 1 THEN Strs(<<"--full", "1">>)
    ELSE IF level = 2 THEN Strs(<<"--full", "1">>)
    ELSE IF level = 3
    THEN Strs(<<"--full", "1", "--merge-graph", "1", "--merge-data", "1",
                "--reordering", "1">>)
    ELSE <<>>

\* lines 84-92
OptimizationFlags(level) ==
    IF level = 0 THEN Strs(<<"--crc", "1", "--full", "0">>)
    ELSE IF level = 1 THEN Strs(<<"--full", "1">>)
    ELSE IF level = 2 THEN Strs(<<"--full", "1", "--merge-graph", "1">>)
    ELSE IF level = 3
    THEN Strs(<<"--full", "1", "--merge-graph", "1", "--merge-data", "1",
                "--reordering", "1">>)
    ELSE <<>>

RECURSIVE PathStrs(_)
PathStrs(paths) ==
    IF paths = <<>> THEN <<>> ELSE <<PathStr(Head(paths))>> \o PathStrs(Tail(paths))

\* lines 62-105: the argument vector
CookArgs(c, validated_inputs, output_dir) ==
    Strs(<<"cook", "--inputs">>) \o PathStrs(validated_inputs)
    \o Strs(<<"--output-path", output_dir>>)
    \o (IF c.output_name # None THEN Strs(<<"--output-name", c.output_name>>) ELSE <<>>)
    \o (IF c.merge THEN Strs(<<"--merge">>) ELSE <<>>)
    \o (IF c.enable_icons THEN Strs(<<"--enable-icons">>) ELSE <<>>)
    \o (IF c.no_archive THEN Strs(<<"--no-archive">>) ELSE <<>>)
    \o OptimizationFlags(c.optimization_level)
    \o (IF c.verbose THEN Strs(<<"--verbose">>) ELSE Strs(<<"--quiet">>))
    \o KwargsFlags(c.kwargs)

\* lines 52-57: the validated inputs, or the first error raised
RECURSIVE ValidateCookInputs(_)
ValidateCookInputs(input_files) ==
    IF input_files = <<>> THEN [raise |-> None, paths |-> <<>>]
    ELSE LET v == ValidateFilePath(Head(input_files), TRUE)
         IN  IF v.raise # None THEN [raise |-> v.raise, paths |-> <<>>]
             ELSE IF ~EndsWith(v.path, "sbs")
             THEN [raise |-> "Input file must be .sbs format: ", paths |-> <<>>]
             ELSE LET rest == ValidateCookInputs(Tail(input_files))
                  IN  IF rest.raise # None THEN rest
                      ELSE [raise |-> None, paths |-> <<v.path>> \o rest.paths]

\* lines 110-125: the expected archive names found in the output directory
RECURSIVE ProbePerInput(_, _, _)
ProbePerInput(validated_inputs, output_name, archives) ==
    IF validated_inputs = <<>> THEN <<>>
    ELSE LET base_name == IF output_name # None THEN output_name
                          ELSE Head(validated_inputs).stem
             rest == ProbePerInput(Tail(validated_inputs), output_name, archives)
         IN  IF base_name \in archives
             THEN <<[stem |-> base_name, ext |-> "sbsar"]>> \o rest
             ELSE rest

\* ProbeCookOutputs without the os.path.exists tests: the expected names
RECURSIVE ExpectedPerInput(_, _)
ExpectedPerInput(validated_inputs, output_name) ==
    IF validated_inputs = <<>> THEN <<>>
    ELSE <<[stem |-> IF output_name # None THEN output_name
                     ELSE Head(validated_inputs).stem,
            ext |-> "sbsar"]>>
         \o ExpectedPerInput(Tail(validated_inputs), output_name)

ProbeCookOutputsNoExistenceTest(c, validated_inputs, archives) ==
    IF c.merge /\ c.output_name # None
    THEN <<[stem |-> c.output_name, ext |-> "sbsar"]>>
    ELSE ExpectedPerInput(validated_inputs, c.output_name)

ProbeCookOutputs(c, validated_inputs, archives) ==
    IF c.merge /\ c.output_name # None
    THEN IF c.output_name \in archives
         THEN <<[stem |-> c.output_name, ext |-> "sbsar"]>>
         ELSE <<>>
    ELSE ProbePerInput(validated_inputs, c.output_name, archives)

\* what the cooker may do when cook() runs it
CookProcessOutcomes ==
    {[kind |-> "exit", returncode |-> 0, stdout |-> "done", stderr |-> ""],
     [kind |-> "exit", returncode |-> 1, stdout |-> "", stderr |-> "license error"],
     [kind |-> "timeout"],
     [kind |-> "missing"]}

\* the archive names (stems) the cooker may leave in the output directory:
\* one per input, one named after --output-name, an unexpected one, none
ArchivesWritten(c, naming) ==
    IF naming = "per_input" THEN {c.input_files[i].stem : i \in 1..Len(c.input_files)}
    ELSE IF naming = "output_name" /\ c.output_name # None THEN {c.output_name}
    ELSE IF naming = "unexpected" THEN {"material_v2"}
    ELSE {}

ArchiveNamings == {"per_input", "output_name", "unexpected", "nothing"}

\* the whole call: the runner invocations it made, the directory it leaves
\* and the dict it returns or the error it raises
Cook(c, dir, proc, naming) ==
    LET v == ValidateCookInputs(c.input_files)
        output_dir == EnsureDirectory(dir)
        args == CookArgs(c, v.paths, "out")
        run == RunCommand(CookerPath, Seconds(CookTimeout), proc)
        archives == output_dir.archives \cup ArchivesWritten(c, naming)
    IN  IF v.raise # None
        THEN [raised |-> TRUE, error |-> <<v.raise>>, runs |-> <<>>, dir |-> dir]
        ELSE IF run.raised
        THEN [raised |-> TRUE, error |-> run.error,
              runs |-> <<[args |-> args, timeout |-> Seconds(CookTimeout)]>>,
              dir |-> output_dir]
        ELSE [raised |-> FALSE,
              runs |-> <<[args |-> args, timeout |-> Seconds(CookTimeout)]>>,
              dir |-> [output_dir EXCEPT !.archives = archives],
              result |-> [success |-> TRUE,
                          output_files |-> ProbeCookOutputs(c, v.paths, archives),
                          command_output |-> run.result.stdout,
                          command_args |-> args,
                          input_files |-> v.paths]]

CookCalls ==
    [input_files : SeqsUpTo(CookInputPaths, MaxInputs),
     output_name : {None, "merged"},
     merge : BOOLEAN,
     enable_icons : BOOLEAN,
     no_archive : BOOLEAN,
     optimization_level : OptimizationLevels,
     verbose : BOOLEAN,
     kwargs : CookKwargs]

\* the output directory before the call: absent, empty, or holding the
\* archive A.sbsar of an earlier cook
OutputDirsBefore ==
    {[exists |-> FALSE, archives |-> {}],
     [exists |-> TRUE, archives |-> {}],
     [exists |-> TRUE, archives |-> {"A"}]}

CookIdle ==
    /\ cook_pc = "idle"
    /\ cook_call = Null
    /\ cook_runs = <<>>
    /\ cook_dir = Null
    /\ cook_result = Null

\* the state a cook() call leaves behind
CookEnds(c, dir, r) ==
    /\ cook_call' = c @@ [dir_before |-> dir]
    /\ cook_runs' = r.runs
    /\ cook_dir' = r.dir
    /\ IF r.raised
       THEN cook_pc' = "raised" /\ cook_result' = [error |-> r.error]
       ELSE cook_pc' = "returned" /\ cook_result' = r.result
    /\ UNCHANGED cookFrame

CookFailures == {p \in CookProcessOutcomes : p.kind # "exit" \/ p.returncode # 0}
CookSuccess == CHOOSE p \in CookProcessOutcomes : p.kind = "exit" /\ p.returncode = 0

\* a cook() call that ends in the validation loop (lines 52-57)
CookRejectsInput ==
    /\ cook_pc = "idle"
    /\ \E c \in CookCalls, dir \in OutputDirsBefore :
        /\ ValidateCookInputs(c.input_files).raise # None
        /\ CookEnds(c, dir, Cook(c, dir, CookSuccess, "nothing"))

\* a cook() call whose runner invocation raises (line 108)
CookToolFails ==
    /\ cook_pc = "idle"
    /\ \E c \in CookCalls, dir \in OutputDirsBefore, proc \in CookFailures :
        /\ ValidateCookInputs(c.input_files).raise = None
        /\ CookEnds(c, dir, Cook(c, dir, proc, "nothing"))

\* a cook() call that runs to its return (lines 110-134)
CookReturns ==
    /\ cook_pc = "idle"
    /\ \E c \in CookCalls, dir \in OutputDirsBefore, naming \in ArchiveNamings :
        /\ ValidateCookInputs(c.input_files).raise = None
        /\ CookEnds(c, dir, Cook(c, dir, CookSuccess, naming))

NextCook ==
    \/ CookRejectsInput
    \/ CookToolFails
    \/ CookReturns

(***************************************************************************)
(* SubstanceRenderTool._organize_output_files (sbsrender.py lines 211-262).*)
(* A file name is searched character by character, so a stem is the        *)
(* sequence of its characters.                                             *)
(***************************************************************************)
UpperCase == <<"A", "B", "C", "D", "E", "F", "G", "H", "I", "J", "K", "L", "M",
               "N", "O", "P", "Q", "R", "S", "T", "U", "V", "W", "X", "Y", "Z">>
LowerCase == <<"a", "b", "c", "d", "e", "f", "g", "h", "i", "j", "k", "l", "m",
               "n", "o", "p", "q", "r", "s", "t", "u", "v", "w", "x", "y", "z">>

\* str.lower() on one character
LowerChar(c) ==
    IF \E i \in 1..Len(UpperCase) : UpperCase[i] = c
    THEN LowerCase[CHOOSE i \in 1..Len(UpperCase) : UpperCase[i] = c]
    ELSE c

\* line 246: Path(file_path).stem.lower()
LowerStem(file_path) == [i \in 1..Len(file_path.stem) |-> LowerChar(file_path.stem[i])]

\* line 251: re.search(pattern, filename) for a pattern without metacharacters
Search(pattern, filename) ==
    \E i \in 0..(Len(filename) - Len(pattern)) :
        SubSeq(filename, i + 1, i + Len(pattern)) = pattern

\* lines 221-231: the keys of organized, in insertion order
Categories == <<"diffuse", "normal", "roughness", "metallic", "height",
                "ambient_occlusion", "emission", "opacity", "other">>

\* lines 234-243: the keys of patterns, in insertion order
PatternOrder == <<"diffuse", "normal", "roughness", "metallic", "height",
                  "ambient_occlusion", "emission", "opacity">>

\* PatternOrder with height tried before diffuse
PatternOrderHeightFirst == <<"height", "diffuse", "normal", "roughness", "metallic",
                             "ambient_occlusion", "emission", "opacity">>

\* lines 234-243
Patterns ==
    [diffuse |-> <<<<"d", "i", "f", "f", "u", "s", "e">>,
                 <<"a", "l", "b", "e", "d", "o">>,
                 <<"b", "a", "s", "e", "c", "o", "l", "o", "r">>,
                 <<"c", "o", "l", "o", "r">>>>,
     normal |-> <<<<"n", "o", "r", "m", "a", "l">>,
                <<"n", "o", "r", "m", "a", "l", "m", "a", "p">>>>,
     roughness |-> <<<<"r", "o", "u", "g", "h", "n", "e", "s", "s">>,
                   <<"r", "o", "u", "g", "h">>>>,
     metallic |-> <<<<"m", "e", "t", "a", "l", "l", "i", "c">>,
                  <<"m", "e", "t", "a", "l">>>>,
     height |-> <<<<"h", "e", "i", "g", "h", "t">>,
                <<"d", "i", "s", "p", "l", "a", "c", "e", "m", "e", "n", "t">>,
                <<"d", "i", "s", "p">>>>,
     ambient_occlusion |-> <<<<"a", "o">>,
                           <<"a", "m", "b", "i", "e", "n", "t">>,
                           <<"o", "c", "c", "l", "u", "s", "i", "o", "n">>>>,
     emission |-> <<<<"e", "m", "i", "s", "s", "i", "o", "n">>,
                  <<"e", "m", "i", "s", "s", "i", "v", "e">>>>,
     opacity |-> <<<<"o", "p", "a", "c", "i", "t", "y">>,
                 <<"a", "l", "p", "h", "a">>,
                 <<"t", "r", "a", "n", "s", "p", "a", "r", "e", "n", "c", "y">>>>]

\* lines 249-256: the first category, in the order given, with a matching pattern
RECURSIVE FirstMatch(_, _)
FirstMatch(filename, order) ==
    IF order = <<>> THEN None
    ELSE IF \E k \in 1..Len(Patterns[Head(order)]) :
               Search(Patterns[Head(order)][k], filename)
    THEN Head(order)
    ELSE FirstMatch(filename, Tail(order))

\* the category order the loop of line 249 walks
CategoryOrder == PatternOrder

\* lines 246-259: the list one file is appended to
Categorize(file_path) ==
    LET category == FirstMatch(LowerStem(file_path), CategoryOrder)
    IN  IF category # None THEN category ELSE "other"

\* lines 221-231
EmptyOrganized == [k \in {Categories[i] : i \in 1..Len(Categories)} |-> <<>>]

\* OrganizeFile for a loop that does not stop at the first matching category
OrganizeFileEveryMatch(org, file_path) ==
    LET matching == {c \in DOMAIN Patterns :
                        \E k \in 1..Len(Patterns[c]) :
                            Search(Patterns[c][k], LowerStem(file_path))}
    IN  [c \in DOMAIN org |->
            IF c \in matching \/ (matching = {} /\ c = "other")
            THEN Append(org[c], file_path) ELSE org[c]]

\* lines 245-259: one iteration of the loop over output_files
OrganizeFile(org, file_path) ==
    [org EXCEPT ![Categorize(file_path)] = Append(@, file_path)]

\* line 262: the dict without its empty categories
RemoveEmpty(org) ==
    [k \in {c \in DOMAIN org : org[c] # <<>>} |-> org[k]]

RECURSIVE OrganizeLoop(_, _)
OrganizeLoop(org, output_files) ==
    IF output_files = <<>> THEN org
    ELSE OrganizeLoop(OrganizeFile(org, Head(output_files)), Tail(output_files))

\* lines 211-262: the whole function
OrganizeOutputFiles(output_files) == RemoveEmpty(OrganizeLoop(EmptyOrganized, output_files))

\* the stems tried
Brick_BaseColor == <<"B", "r", "i", "c", "k", "_", "B", "a", "s", "e", "C", "o", "l", "o", "r">>
Brick_Normal == <<"B", "r", "i", "c", "k", "_", "N", "o", "r", "m", "a", "l">>
Brick_Roughness == <<"B", "r", "i", "c", "k", "_", "R", "o", "u", "g", "h", "n", "e", "s", "s">>
Brick_Weird == <<"B", "r", "i", "c", "k", "_", "W", "e", "i", "r", "d">>
Color_Height == <<"C", "o", "l", "o", "r", "_", "H", "e", "i", "g", "h", "t">>
Metal_Rough == <<"M", "e", "t", "a", "l", "_", "R", "o", "u", "g", "h">>
Chaos == <<"C", "h", "a", "o", "s">>
ALPHA == <<"A", "L", "P", "H", "A">>
OrganizeStems ==
    {Brick_BaseColor, Brick_Normal, Brick_Roughness, Brick_Weird,
     Color_Height, Metal_Rough, Chaos, ALPHA}

\* the file paths tried: each stem in two directories, one of them named
\* like a pattern
OrganizeFilePaths ==
    [dir : {"out", "normal_maps"}, stem : OrganizeStems, ext : {"png"}]

OrganizeIdle ==
    /\ org_pc = "idle"
    /\ org_files = <<>>
    /\ org_done = 0
    /\ organized = Null
    /\ org_result = Null

\* lines 221-243: the function is entered with a list of paths
OrganizeStart ==
    /\ org_pc = "idle"
    /\ \E output_files \in SeqsUpTo(OrganizeFilePaths, MaxOrganized) :
        org_files' = output_files
    /\ org_pc' = "looping"
    /\ organized' = EmptyOrganized
    /\ UNCHANGED <<org_done, org_result>>
    /\ UNCHANGED organizeFrame

\* lines 245-259: the next file is categorized
OrganizeNext ==
    /\ org_pc = "looping"
    /\ org_done < Len(org_files)
    /\ organized' = OrganizeFile(organized, org_files[org_done + 1])
    /\ org_done' = org_done + 1
    /\ UNCHANGED <<org_pc, org_files, org_result>>
    /\ UNCHANGED organizeFrame

\* line 262: the loop is over, the non-empty categories are returned
OrganizeReturn ==
    /\ org_pc = "looping"
    /\ org_done = Len(org_files)
    /\ org_result' = RemoveEmpty(organized)
    /\ org_pc' = "returned"
    /\ UNCHANGED <<org_files, org_done, organized>>
    /\ UNCHANGED organizeFrame

NextOrganize ==
    \/ OrganizeStart
    \/ OrganizeNext
    \/ OrganizeReturn

(***************************************************************************)
(* SubstanceRenderTool.render (sbsrender.py lines 72-209).                 *)
(***************************************************************************)
RendererPath == "/usr/bin/sbsrender"

\* "if x:" for an optional string and for an optional integer
TruthyStr(x) == x # None /\ x # ""
TruthyInt(x) == x # Nothing /\ x[1] # 0

\* str(n) of the integers tried
IntStr(n) ==
    CASE n = 0 -> "0"
      [] n = 4 -> "4"
      [] n = 512 -> "512"
      [] n = 2048 -> "2048"

\* the paths tried as the sbsar_file argument
RenderInputPaths ==
    {[stem |-> "A", ext |-> "sbsar", exists |-> TRUE, abs |-> FALSE],
     [stem |-> "A", ext |-> "SBSAR", exists |-> TRUE, abs |-> FALSE],
     [stem |-> "B", ext |-> "sbsar", exists |-> FALSE, abs |-> FALSE],
     [stem |-> "A", ext |-> "sbs", exists |-> TRUE, abs |-> FALSE],
     EmptyPath}

OutputFormats == {"png", "PNG", "tiff"}

\* the options of render() besides the archive, the format and the image
\* entries: the defaults, each option given alone, all given, and all given
\* with a value Python takes for false
RenderDefaults ==
    [output_name |-> None, bit_depth |-> "8", resolution |-> Nothing,
     graph_selection |-> None, output_selection |-> None, parameters |-> <<>>,
     preset_name |-> None, cpu_count |-> Nothing, memory_budget |-> Nothing,
     verbose |-> FALSE, kwargs |-> <<>>]

RenderAllGiven ==
    [output_name |-> "tex", bit_depth |-> "16", resolution |-> Some(512),
     graph_selection |-> "main", output_selection |-> "basecolor",
     parameters |-> <<[name |-> "tiling", value |-> "2"],
                      [name |-> "seed", value |-> "7"]>>,
     preset_name |-> "wet", cpu_count |-> Some(4), memory_budget |-> Some(2048),
     verbose |-> TRUE,
     kwargs |-> <<[key |-> "output_size", bool |-> FALSE, text |-> "9,9"]>>]

RenderAllFalse ==
    [output_name |-> "", bit_depth |-> "", resolution |-> Some(0),
     graph_selection |-> "", output_selection |-> "", parameters |-> <<>>,
     preset_name |-> "", cpu_count |-> Some(0), memory_budget |-> Some(0),
     verbose |-> FALSE, kwargs |-> <<>>]

RenderOptionSets ==
    {RenderDefaults, RenderAllGiven, RenderAllFalse,
     [RenderAllGiven EXCEPT !.kwargs = <<>>]}
    \cup {[RenderDefaults EXCEPT ![k] = RenderAllGiven[k]] : k \in DOMAIN RenderDefaults}

\* image_entries: a dict, so a list of (parameter, image path) pairs with
\* distinct parameters, in insertion order
EntryNames == {"img1", "img2", "img3"}
EntryImages == {[file |-> "in.png", exists |-> TRUE],
                [file |-> "gone.png", exists |-> FALSE]}

ImageEntryLists ==
    {e \in SeqsUpTo([name : EntryNames, image : EntryImages], MaxEntries) :
        \A i, j \in 1..Len(e) : e[i].name = e[j].name => i = j}

RenderCalls ==
    [sbsar_file : RenderInputPaths,
     output_format : OutputFormats,
     image_entries : ImageEntryLists,
     options : RenderOptionSets]

\* lines 115-117: the validated archive, or the error raised
ValidateArchive(sbsar_file) ==
    LET v == ValidateFilePath(sbsar_file, TRUE)
    IN  IF v.raise # None THEN v
        ELSE IF ~EndsWith(v.path, "sbsar")
        THEN [raise |-> "Input file must be .sbsar format: ", path |-> v.path]
        ELSE v

\* lines 146-148
RECURSIVE SetValueArgs(_)
SetValueArgs(parameters) ==
    IF parameters = <<>> THEN <<>>
    ELSE <<Str("--set-value"), <<Head(parameters).name, "@", Head(parameters).value>>>>
         \o SetValueArgs(Tail(parameters))

\* ValidateEntries with the os.path.exists test of lines 154-155 left out
RECURSIVE ValidateEntriesNoExistenceTest(_)
ValidateEntriesNoExistenceTest(image_entries) ==
    IF image_entries = <<>> THEN [raise |-> None, args |-> <<>>]
    ELSE LET entry == Head(image_entries)
             rest == ValidateEntriesNoExistenceTest(Tail(image_entries))
         IN  [raise |-> None,
              args |-> <<Str("--set-entry"), <<entry.name, "@", entry.image.file>>>>
                       \o rest.args]

\* lines 151-156: the --set-entry arguments, or the error raised at the first
\* entry whose file is missing
RECURSIVE ValidateEntries(_)
ValidateEntries(image_entries) ==
    IF image_entries = <<>> THEN [raise |-> None, args |-> <<>>]
    ELSE LET entry == Head(image_entries)
             rest == ValidateEntries(Tail(image_entries))
         IN  IF ~entry.image.exists
             THEN [raise |-> "Image entry file not found: ", args |-> <<>>]
             ELSE IF rest.raise # None THEN rest
             ELSE [raise |-> None,
                   args |-> <<Str("--set-entry"), <<entry.name, "@", entry.image.file>>>>
                            \o rest.args]

\* RenderArgs with --output-size put before --use-preset
RenderArgsSizeBeforePreset(c, validated_sbsar, output_dir, entry_args) ==
    LET o == c.options
    IN  <<Str("render"), Str("--input"), PathStr(validated_sbsar)>>
        \o Strs(<<"--output-path", output_dir>>)
        \o Strs(<<"--output-format", c.output_format>>)
        \o (IF TruthyStr(o.output_name) THEN Strs(<<"--output-name", o.output_name>>) ELSE <<>>)
        \o (IF TruthyStr(o.bit_depth) THEN Strs(<<"--output-bit-depth", o.bit_depth>>) ELSE <<>>)
        \o (IF TruthyStr(o.graph_selection)
            THEN Strs(<<"--input-graph", o.graph_selection>>) ELSE <<>>)
        \o (IF TruthyStr(o.output_selection)
            THEN Strs(<<"--input-graph-output", o.output_selection>>) ELSE <<>>)
        \o SetValueArgs(o.parameters)
        \o entry_args
        \o (IF TruthyInt(o.resolution)
            THEN <<Str("--output-size"),
                   <<IntStr(o.resolution[1]), ",", IntStr(o.resolution[1])>>>>
            ELSE <<>>)
        \o (IF TruthyStr(o.preset_name) THEN Strs(<<"--use-preset", o.preset_name>>) ELSE <<>>)
        \o (IF TruthyInt(o.cpu_count)
            THEN Strs(<<"--cpu-count", IntStr(o.cpu_count[1])>>) ELSE <<>>)
        \o (IF TruthyInt(o.memory_budget)
            THEN Strs(<<"--memory-budget", IntStr(o.memory_budget[1])>>) ELSE <<>>)
        \o (IF o.verbose THEN Strs(<<"--verbose">>) ELSE Strs(<<"--quiet">>))
        \o KwargsFlags(o.kwargs)

\* lines 122-184: the argument vector, entry_args being the --set-entry part
RenderArgs(c, validated_sbsar, output_dir, entry_args) ==
    LET o == c.options
    IN  <<Str("render"), Str("--input"), PathStr(validated_sbsar)>>
        \o Strs(<<"--output-path", output_dir>>)
        \o Strs(<<"--output-format", c.output_format>>)
        \o (IF TruthyStr(o.output_name) THEN Strs(<<"--output-name", o.output_name>>) ELSE <<>>)
        \o (IF TruthyStr(o.bit_depth) THEN Strs(<<"--output-bit-depth", o.bit_depth>>) ELSE <<>>)
        \o (IF TruthyStr(o.graph_selection)
            THEN Strs(<<"--input-graph", o.graph_selection>>) ELSE <<>>)
        \o (IF TruthyStr(o.output_selection)
            THEN Strs(<<"--input-graph-output", o.output_selection>>) ELSE <<>>)
        \o SetValueArgs(o.parameters)
        \o entry_args
        \o (IF TruthyStr(o.preset_name) THEN Strs(<<"--use-preset", o.preset_name>>) ELSE <<>>)
        \o (IF TruthyInt(o.cpu_count)
            THEN Strs(<<"--cpu-count", IntStr(o.cpu_count[1])>>) ELSE <<>>)
        \o (IF TruthyInt(o.memory_budget)
            THEN Strs(<<"--memory-budget", IntStr(o.memory_budget[1])>>) ELSE <<>>)
        \o (IF TruthyInt(o.resolution)
            THEN <<Str("--output-size"),
                   <<IntStr(o.resolution[1]), ",", IntStr(o.resolution[1])>>>>
            ELSE <<>>)
        \o (IF o.verbose THEN Strs(<<"--verbose">>) ELSE Strs(<<"--quiet">>))
        \o KwargsFlags(o.kwargs)

\* lines 114-184, up to the call of the runner: the error raised if any, the
\* output directory as the call leaves it, the argument vector
RenderPreflight(c, dir) ==
    LET v == ValidateArchive(c.sbsar_file)
        entries == ValidateEntries(c.image_entries)
    IN  IF v.raise # None
        THEN [raise |-> v.raise, dir |-> dir, args |-> <<>>]
        ELSE IF entries.raise # None
        THEN [raise |-> entries.raise, dir |-> EnsureDirectory(dir), args |-> <<>>]
        ELSE [raise |-> None, dir |-> EnsureDirectory(dir),
              args |-> RenderArgs(c, v.path, "out", entries.args)]

\* the files of the output directory: stem (its characters) and extension
StaleStem == <<"s", "t", "a", "l", "e">>
OldStem == <<"O", "L", "D">>
OtherStem == <<"o", "t", "h", "e", "r">>
NewStem == <<"n", "e", "w">>
StalePng == [stem |-> StaleStem, ext |-> "png"]
OldTiff == [stem |-> OldStem, ext |-> "TIFF"]
OtherPng == [stem |-> OtherStem, ext |-> "png"]
OtherTiff == [stem |-> OtherStem, ext |-> "tiff"]

\* the file this invocation's renderer writes, named after the format
NewFile(output_format) == [stem |-> NewStem, ext |-> output_format]

\* the output directory before the call
RenderDirsBefore ==
    {[exists |-> FALSE, files |-> {}],
     [exists |-> TRUE, files |-> {}],
     [exists |-> TRUE, files |-> {StalePng}],
     [exists |-> TRUE, files |-> {StalePng, OldTiff}]}

\* the files another render running at the same time may write into it
ConcurrentFiles == {OtherPng, OtherTiff}

\* os.listdir(): the entries of the directory, in the order it reports them
DirOrder ==
    <<StalePng, OldTiff, OtherPng, OtherTiff>>
    \o [i \in 1..3 |-> NewFile(<<"png", "PNG", "tiff">>[i])]

ListDir(dir) ==
    LET Present(file) == file \in dir.files
    IN  SelectSeq(DirOrder, Present)

\* DiscoverOutputs that lists only what this invocation wrote
DiscoverOwnOutputs(dir, output_format) ==
    LET Own(file) == file = NewFile(output_format)
        listed == SelectSeq(ListDir(dir), Own)
    IN  [i \in 1..Len(listed) |-> listed[i] @@ [dir |-> "out"]]

\* lines 189-194: the entries whose lower-cased name ends with the lower-cased
\* format, each joined to the output directory
DiscoverOutputs(dir, output_format) ==
    LET Matches(file) == Lower(file.ext) = Lower(output_format)
        listed == IF dir.exists THEN SelectSeq(ListDir(dir), Matches) ELSE <<>>
    IN  [i \in 1..Len(listed) |-> listed[i] @@ [dir |-> "out"]]

\* what the renderer may do when render() runs it
RenderProcessOutcomes ==
    {[kind |-> "exit", returncode |-> 0, stdout |-> "done", stderr |-> ""],
     [kind |-> "exit", returncode |-> 1, stdout |-> "", stderr |-> "license error"],
     [kind |-> "timeout"],
     [kind |-> "missing"]}

RenderFailures == {p \in RenderProcessOutcomes : p.kind # "exit" \/ p.returncode # 0}
RenderSuccess == CHOOSE p \in RenderProcessOutcomes : p.kind = "exit" /\ p.returncode = 0

RenderIdle ==
    /\ render_pc = "idle"
    /\ render_call = Null
    /\ render_runs = <<>>
    /\ render_dir = Null
    /\ render_result = Null

\* a render() call that ends at the archive checks (lines 115-117)
RenderRejectsArchive ==
    /\ render_pc = "idle"
    /\ \E c \in RenderCalls, dir \in RenderDirsBefore :
        LET pre == RenderPreflight(c, dir)
        IN  /\ ValidateArchive(c.sbsar_file).raise # None
            /\ render_call' = c @@ [dir_before |-> dir]
            /\ render_dir' = pre.dir
            /\ render_result' = [error |-> <<pre.raise>>]
    /\ render_pc' = "raised"
    /\ UNCHANGED render_runs
    /\ UNCHANGED renderFrame

\* a render() call that ends in the loop over image_entries (lines 151-156)
RenderRejectsEntry ==
    /\ render_pc = "idle"
    /\ \E c \in RenderCalls, dir \in RenderDirsBefore :
        LET pre == RenderPreflight(c, dir)
        IN  /\ ValidateArchive(c.sbsar_file).raise = None
            /\ pre.raise # None
            /\ render_call' = c @@ [dir_before |-> dir]
            /\ render_dir' = pre.dir
            /\ render_result' = [error |-> <<pre.raise>>]
    /\ render_pc' = "raised"
    /\ UNCHANGED render_runs
    /\ UNCHANGED renderFrame

\* line 187: the runner is called and waits for the renderer
RenderSpawn ==
    /\ render_pc = "idle"
    /\ \E c \in RenderCalls, dir \in RenderDirsBefore :
        LET pre == RenderPreflight(c, dir)
        IN  /\ pre.raise = None
            /\ render_call' = c @@ [dir_before |-> dir]
            /\ render_dir' = pre.dir
            /\ render_runs' = <<[args |-> pre.args, timeout |-> Seconds(RenderTimeout)]>>
    /\ render_pc' = "running"
    /\ UNCHANGED render_result
    /\ UNCHANGED renderFrame

\* another render, running at the same time, writes into the same directory
OtherRenderWrites ==
    /\ render_pc = "running"
    /\ \E file \in ConcurrentFiles \ render_dir.files :
        render_dir' = [render_dir EXCEPT !.files = @ \cup {file}]
    /\ UNCHANGED <<render_pc, render_call, render_runs, render_result>>
    /\ UNCHANGED renderFrame

\* line 187: the runner raises
RenderToolFails ==
    /\ render_pc = "running"
    /\ \E proc \in RenderFailures :
        render_result' =
            [error |-> RunCommand(RendererPath, Seconds(RenderTimeout), proc).error]
    /\ render_pc' = "raised"
    /\ UNCHANGED <<render_call, render_runs, render_dir>>
    /\ UNCHANGED renderFrame

\* lines 187-209: the renderer exits with code 0, having written its file
\* or nothing; the directory is listed and the result returned
RenderReturns ==
    /\ render_pc = "running"
    /\ \E written \in {{}, {NewFile(render_call.output_format)}} :
        LET run == RunCommand(RendererPath, Seconds(RenderTimeout), RenderSuccess)
            dir == [render_dir EXCEPT !.files = @ \cup written]
            output_files == DiscoverOutputs(dir, render_call.output_format)
        IN  /\ render_dir' = dir
            /\ render_result' =
                 [success |-> TRUE,
                  output_files |-> output_files,
                  organized_outputs |-> OrganizeOutputFiles(output_files),
                  output_directory |-> "out",
                  command_output |-> run.result.stdout,
                  command_args |-> render_runs[1].args,
                  input_file |-> ValidateArchive(render_call.sbsar_file).path,
                  format |-> render_call.output_format,
                  bit_depth |-> render_call.options.bit_depth]
    /\ render_pc' = "returned"
    /\ UNCHANGED <<render_call, render_runs>>
    /\ UNCHANGED renderFrame

NextRender ==
    \/ RenderRejectsArchive
    \/ RenderRejectsEntry
    \/ RenderSpawn
    \/ OtherRenderWrites
    \/ RenderToolFails
    \/ RenderReturns

(***************************************************************************)
(* process_batch: inputs.                                                  *)
(***************************************************************************)
\* the directory listing glob.glob() walks, in the order it reports it
DirListing ==
    << [stem |-> "A", ext |-> "sbs"],
       [stem |-> "B", ext |-> "SBS"],
       [stem |-> "A", ext |-> "sbsar"] >>

OperationModes == {"cook_only", "render_only", "cook_and_render"}

\* line 103: max_workers when the caller gives none; the pool sizes tried go
\* from 1 to it
DefaultMaxWorkers == 2

\* a parameter set of batch_parameters: the empty dict or a non-empty one
EmptyParams == "{}"
SomeParams == "{p: 1}"
ParamValues == {EmptyParams, SomeParams}

\* batch_parameters: blank text, text that is not JSON, JSON that is not an
\* array, or a JSON array of parameter sets
BatchParameterTexts ==
    {[text |-> "blank", value |-> None],
     [text |-> "invalid", value |-> None],
     [text |-> "json", value |-> [type |-> "object", items |-> <<>>]]}
    \cup {[text |-> "json", value |-> [type |-> "array", items |-> s]] :
            s \in SeqsUpTo(ParamValues, MaxParamSets)}

DirectoryStates == {"ok", "empty", "missing", "not_a_directory"}

(***************************************************************************)
(* process_batch: the sequential front part (lines 128-191).  The result   *)
(* is either the message of the exception raised or the prepared batch.    *)
(***************************************************************************)
CookModes == {"cook_only", "cook_and_render"}
RenderModes == {"render_only", "cook_and_render"}

\* ParseBatchParameters without the isinstance(list) check
ParseBatchParametersNoArrayCheck(bp) ==
    IF bp.text = "blank" THEN [raise |-> None, sets |-> <<>>]
    ELSE IF bp.text = "invalid"
         THEN [raise |-> "Invalid JSON in batch parameters", sets |-> <<>>]
    ELSE IF bp.value.type # "array"
         THEN [raise |-> None, sets |-> <<>>]
    ELSE [raise |-> None, sets |-> bp.value.items]

\* lines 154-161: parameter_sets, or the ValueError raised
ParseBatchParameters(bp) ==
    IF bp.text = "blank" THEN [raise |-> None, sets |-> <<>>]
    ELSE IF bp.text = "invalid"
         THEN [raise |-> "Invalid JSON in batch parameters", sets |-> <<>>]
    ELSE IF bp.value.type # "array"
         THEN [raise |-> "Batch parameters must be a JSON array", sets |-> <<>>]
    ELSE [raise |-> None, sets |-> bp.value.items]

\* lines 170-174: the files kept for the operation mode
RequiredExtension(mode) == IF mode \in CookModes THEN "sbs" ELSE "sbsar"

FilterInputFiles(files, mode) ==
    SelectIdx(files, {i \in 1..Len(files) : EndsWith(files[i], RequiredExtension(mode))})

\* the steps of a unit's pipeline that ran, and how each ended
NotRun == [cook |-> "skipped", render |-> "skipped"]

\* UnitsOfFile without the default unit of lines 215-224
UnitsOfFileNoDefault(file, sets) ==
    [i \in 1..Len(sets) |->
        [file |-> file, index |-> i - 1, params |-> sets[i],
         status |-> "queued", outcome |-> None, result |-> Null,
             ran |-> NotRun]]

\* lines 203-224: one future per (file, parameter set), or one per file with
\* empty parameters and index 0
UnitsOfFile(file, sets) ==
    IF sets # <<>>
    THEN [i \in 1..Len(sets) |->
            [file |-> file, index |-> i - 1, params |-> sets[i],
             status |-> "queued", outcome |-> None, result |-> Null,
             ran |-> NotRun]]
    ELSE << [file |-> file, index |-> 0, params |-> EmptyParams,
             status |-> "queued", outcome |-> None, result |-> Null,
             ran |-> NotRun] >>

RECURSIVE SubmitAll(_, _)
SubmitAll(files, sets) ==
    IF files = <<>> THEN <<>>
    ELSE UnitsOfFile(Head(files), sets) \o SubmitAll(Tail(files), sets)

\* lines 128-224 in the order the code runs them; the first failing check
\* raises and nothing after it runs
PrepareBatch(dir, matched, mode, bp, cookerFound, rendererFound) ==
    LET parsed == ParseBatchParameters(bp)
        eligible == FilterInputFiles(matched, mode)
        nothing == [raise |-> None, cooker |-> FALSE, renderer |-> FALSE,
                    spawned |-> 0, units |-> <<>>, files |-> <<>>, sets |-> <<>>]
    IN  IF dir = "empty"
        THEN [nothing EXCEPT !.raise = "Input directory cannot be empty"]
        ELSE IF dir = "missing"
        THEN [nothing EXCEPT !.raise = "Input directory not found"]
        ELSE IF dir = "not_a_directory"
        THEN [nothing EXCEPT !.raise = "Input path is not a directory"]
        ELSE IF parsed.raise # None
        THEN [nothing EXCEPT !.raise = parsed.raise]
        ELSE IF matched = <<>>
        THEN [nothing EXCEPT !.raise = "No files found matching pattern"]
        ELSE IF eligible = <<>>
        THEN [nothing EXCEPT !.raise = "No valid files found for operation mode"]
        ELSE IF mode \in CookModes /\ ~cookerFound
        THEN [nothing EXCEPT !.raise = "Could not find sbscooker"]
        ELSE IF mode \in RenderModes /\ ~rendererFound
        THEN [nothing EXCEPT !.raise = "Could not find sbsrender",
                             !.cooker = mode \in CookModes,
                             !.spawned = IF mode \in CookModes THEN 1 ELSE 0]
        ELSE [raise |-> None,
              cooker |-> mode \in CookModes,
              renderer |-> mode \in RenderModes,
              \* each constructor probes its tool with --version
              spawned |-> (IF mode \in CookModes THEN 1 ELSE 0)
                          + (IF mode \in RenderModes THEN 1 ELSE 0),
              units |-> SubmitAll(eligible, parsed.sets),
              files |-> eligible,
              sets |-> parsed.sets]

\* line 274-277: every exception leaves process_batch wrapped
WrapBatchError(msg) == <<"Batch processing failed: ", msg>>

(***************************************************************************)
(* _process_single_file (lines 279-372), run by a worker.                  *)
(***************************************************************************)
\* lines 305-316
OutputDirOf(file, params, index, organize) ==
    IF organize
    THEN IF params # EmptyParams
         THEN <<"base", file.stem, index>>
         ELSE <<"base", file.stem>>
    ELSE <<"base">>

MkdirOutcomes == {"ok", "raise"}
CookOutcomes == {"ok", "raise", "noarchive"}
RenderOutcomes == {"ok", "raise"}

\* the files a render into dir lists afterwards: its own and those of every
\* unit that rendered into the same directory before
ListedRenders(u, dir) ==
    {u} \cup {v \in 1..Len(units) :
                /\ units[v].outcome = "returned"
                /\ units[v].result.output_directory = dir
                /\ units[v].result.rendered_files # {}}

\* ProcessSingleFile for a worker that sets success before the render step
ProcessSingleFileSuccessFirst(u, mk, cookOut, renderOut) ==
    LET unit == units[u]
        mode == call.operation_mode
        dir == OutputDirOf(unit.file, unit.params, unit.index, call.organize_by_material)
        cooks == mode \in CookModes /\ cooker
        renders == mode \in RenderModes /\ renderer
        result0 == [output_directory |-> dir, cooked_file |-> Null,
                    rendered_files |-> {}, success |-> FALSE, error |-> None]
        cooked == [dir |-> dir, stem |-> unit.file.stem, ext |-> "sbsar"]
    IN  IF mk = "raise"
        THEN [outcome |-> "raised", result |-> [exception |-> "makedirs failed"],
              spawns |-> 0, ran |-> NotRun]
        ELSE IF cooks /\ cookOut # "ok"
        THEN [outcome |-> "returned", spawns |-> 1,
              ran |-> [NotRun EXCEPT !.cook = cookOut],
              result |-> [result0 EXCEPT !.error = "Cooking failed"]]
        ELSE LET result1 == IF cooks THEN [result0 EXCEPT !.cooked_file = cooked,
                                                          !.success = TRUE]
                                     ELSE [result0 EXCEPT !.success = TRUE]
                 n == IF cooks THEN 1 ELSE 0
                 ran1 == IF cooks THEN [NotRun EXCEPT !.cook = "ok"] ELSE NotRun
             IN  IF renders /\ renderOut = "raise"
                 THEN [outcome |-> "returned", spawns |-> n + 1,
                       ran |-> [ran1 EXCEPT !.render = "raise"],
                       result |-> [result1 EXCEPT !.error = "Command execution failed"]]
                 ELSE IF renders
                 THEN [outcome |-> "returned", spawns |-> n + 1,
                       ran |-> [ran1 EXCEPT !.render = "ok"],
                       result |-> [result1 EXCEPT
                                     !.rendered_files = ListedRenders(u, dir)]]
                 ELSE [outcome |-> "returned", spawns |-> n, ran |-> ran1,
                       result |-> result1]

\* the result dict the worker returns, or the exception that leaves it
ProcessSingleFile(u, mk, cookOut, renderOut) ==
    LET unit == units[u]
        mode == call.operation_mode
        dir == OutputDirOf(unit.file, unit.params, unit.index, call.organize_by_material)
        cooks == mode \in CookModes /\ cooker
        renders == mode \in RenderModes /\ renderer
        result0 == [output_directory |-> dir, cooked_file |-> Null,
                    rendered_files |-> {}, success |-> FALSE, error |-> None]
        cooked == [dir |-> dir, stem |-> unit.file.stem, ext |-> "sbsar"]
    IN  IF mk = "raise"
        THEN [outcome |-> "raised", result |-> [exception |-> "makedirs failed"],
              spawns |-> 0, ran |-> NotRun]
        ELSE IF cooks /\ cookOut = "raise"
        THEN [outcome |-> "returned", spawns |-> 1,
              ran |-> [NotRun EXCEPT !.cook = "raise"],
              result |-> [result0 EXCEPT !.error = "Command execution failed"]]
        ELSE IF cooks /\ cookOut = "noarchive"
        THEN [outcome |-> "returned", spawns |-> 1,
              ran |-> [NotRun EXCEPT !.cook = "noarchive"],
              result |-> [result0 EXCEPT !.error = "Cooking failed"]]
        ELSE LET result1 == IF cooks THEN [result0 EXCEPT !.cooked_file = cooked]
                                     ELSE result0
                 n == IF cooks THEN 1 ELSE 0
                 ran1 == IF cooks THEN [NotRun EXCEPT !.cook = "ok"] ELSE NotRun
             IN  IF renders /\ renderOut = "raise"
                 THEN [outcome |-> "returned", spawns |-> n + 1,
                       ran |-> [ran1 EXCEPT !.render = "raise"],
                       result |-> [result1 EXCEPT !.error = "Command execution failed"]]
                 ELSE IF renders
                 THEN [outcome |-> "returned", spawns |-> n + 1,
                       ran |-> [ran1 EXCEPT !.render = "ok"],
                       result |-> [result1 EXCEPT
                                     !.rendered_files = ListedRenders(u, dir),
                                     !.success = TRUE]]
                 ELSE [outcome |-> "returned", spawns |-> n, ran |-> ran1,
                       result |-> [result1 EXCEPT !.success = TRUE]]

\* a finished unit whose pipeline did not succeed
UnitFailed(unit) ==
    \/ unit.outcome = "raised"
    \/ unit.outcome = "returned" /\ ~unit.result.success

FailedUnits == {u \in 1..Len(units) : UnitFailed(units[u])}

(***************************************************************************)
(* process_batch: the summary (lines 244-261).                             *)
(***************************************************************************)
\* f"{x:.1f}%" of processed / expected * 100, as <<whole, tenth>>
FormatRate(processed, expected) ==
    LET tenths == (2000 * processed + expected) \div (2 * expected)
    IN  <<tenths \div 10, tenths % 10>>

TotalVariations(sets) == IF sets # <<>> THEN Len(sets) ELSE 1

Summarize ==
    LET total_files == Len(call.input_files)
        total_variations == TotalVariations(call.parameter_sets)
        total_expected == total_files * total_variations
        total_processed == Len(processed_files)
        total_errors == Len(errors)
    IN  [total_input_files |-> total_files,
         parameter_variations |-> total_variations,
         total_expected_outputs |-> total_expected,
         successfully_processed |-> total_processed,
         errors |-> total_errors,
         success_rate |-> IF total_expected > 0
                          THEN FormatRate(total_processed, total_expected)
                          ELSE <<0>>]

(***************************************************************************)
(* process_batch: the actions.                                             *)
(***************************************************************************)
BatchIdle ==
    /\ pc = "idle"
    /\ call = Null
    /\ units = <<>>
    /\ processed_files = <<>>
    /\ errors = <<>>
    /\ output_structure = <<>>
    /\ cooker = FALSE
    /\ renderer = FALSE
    /\ spawned = 0
    /\ completed = <<>>
    /\ batch_summary = Null
    /\ failure = <<>>

\* the call up to the end of the submission loop
StartBatch ==
    /\ pc = "idle"
    /\ \E dir \in DirectoryStates,
          keep \in SUBSET (1..Len(DirListing)),
          mode \in OperationModes,
          bp \in BatchParameterTexts,
          workers \in 1..DefaultMaxWorkers,
          organize \in BOOLEAN,
          cookerFound \in BOOLEAN,
          rendererFound \in BOOLEAN :
        LET matched == SelectIdx(DirListing, keep)
            p == PrepareBatch(dir, matched, mode, bp, cookerFound, rendererFound)
        IN  /\ Len(p.units) <= MaxUnits
            /\ call' = [directory |-> dir,
                        operation_mode |-> mode,
                        matched |-> matched,
                        batch_parameters |-> bp,
                        max_workers |-> workers,
                        organize_by_material |-> organize,
                        input_files |-> p.files,
                        parameter_sets |-> p.sets]
            /\ cooker' = p.cooker
            /\ renderer' = p.renderer
            /\ spawned' = p.spawned
            /\ units' = p.units
            /\ IF p.raise # None
               THEN pc' = "raised" /\ failure' = WrapBatchError(p.raise)
               ELSE pc' = "collecting" /\ failure' = <<>>
    /\ UNCHANGED <<processed_files, errors, output_structure, completed, batch_summary>>
    /\ UNCHANGED batchFrame

Running == {u \in 1..Len(units) : units[u].status = "running"}
Queued == {u \in 1..Len(units) : units[u].status = "queued"}

\* StartUnit for a pool that starts every submitted unit at once
StartUnitNoLimit ==
    /\ pc = "collecting"
    /\ Queued # {}
    /\ LET u == CHOOSE v \in Queued : \A w \in Queued : v <= w
       IN  units' = [units EXCEPT ![u].status = "running"]
    /\ UNCHANGED <<pc, call, processed_files, errors, output_structure,
                   cooker, renderer, spawned, completed, batch_summary, failure>>
    /\ UNCHANGED batchFrame

\* a free worker takes the oldest queued unit
StartUnit ==
    /\ pc = "collecting"
    /\ Queued # {}
    /\ Cardinality(Running) < call.max_workers
    /\ LET u == CHOOSE v \in Queued : \A w \in Queued : v <= w
       IN  units' = [units EXCEPT ![u].status = "running"]
    /\ UNCHANGED <<pc, call, processed_files, errors, output_structure,
                   cooker, renderer, spawned, completed, batch_summary, failure>>
    /\ UNCHANGED batchFrame

\* a worker runs _process_single_file to its end
FinishUnit(u) ==
    /\ pc = "collecting"
    /\ units[u].status = "running"
    /\ \E mk \in MkdirOutcomes, cookOut \in CookOutcomes, renderOut \in RenderOutcomes :
        LET r == ProcessSingleFile(u, mk, cookOut, renderOut)
            done == [units[u] EXCEPT !.status = "done", !.outcome = r.outcome,
                                     !.result = r.result, !.ran = r.ran]
        IN  /\ UnitFailed(done) => Cardinality(FailedUnits) < MaxFailures
            /\ units' = [units EXCEPT ![u] = done]
            /\ spawned' = spawned + r.spawns
    /\ completed' = Append(completed, u)
    /\ UNCHANGED <<pc, call, processed_files, errors, output_structure,
                   cooker, renderer, batch_summary, failure>>
    /\ UNCHANGED batchFrame

MaterialIndex(stem) ==
    IF \E i \in 1..Len(output_structure) : output_structure[i].material = stem
    THEN CHOOSE i \in 1..Len(output_structure) : output_structure[i].material = stem
    ELSE 0

\* lines 229-237: as_completed yields a finished future; its result is kept
CollectResult(u) ==
    /\ pc = "collecting"
    /\ completed # <<>> /\ u = Head(completed)
    /\ completed' = Tail(completed)
    /\ units[u].outcome = "returned"
    /\ units' = [units EXCEPT ![u].status = "collected"]
    /\ processed_files' = Append(processed_files, u)
    /\ LET stem == units[u].file.stem
           i == MaterialIndex(stem)
       IN  output_structure' =
             IF i = 0
             THEN Append(output_structure, [material |-> stem, results |-> <<u>>])
             ELSE [output_structure EXCEPT ![i].results = Append(@, u)]
    /\ UNCHANGED <<pc, call, errors, cooker, renderer, spawned, batch_summary, failure>>
    /\ UNCHANGED batchFrame

\* CollectError without the except clause: the exception leaves the loop
CollectErrorReraises(u) ==
    /\ pc = "collecting"
    /\ completed # <<>> /\ u = Head(completed)
    /\ units[u].outcome = "raised"
    /\ pc' = "raised"
    /\ failure' = WrapBatchError(units[u].result.exception)
    /\ UNCHANGED <<call, units, processed_files, errors, output_structure, cooker,
                   renderer, spawned, completed, batch_summary>>
    /\ UNCHANGED batchFrame

\* lines 239-242: future.result() raised; the message is logged
CollectError(u) ==
    /\ pc = "collecting"
    /\ completed # <<>> /\ u = Head(completed)
    /\ completed' = Tail(completed)
    /\ units[u].outcome = "raised"
    /\ units' = [units EXCEPT ![u].status = "collected"]
    /\ errors' = Append(errors, <<"Failed to process", units[u].file, units[u].index,
                                  units[u].result.exception>>)
    /\ UNCHANGED <<pc, call, processed_files, output_structure, cooker, renderer,
                   spawned, batch_summary, failure>>
    /\ UNCHANGED batchFrame

\* ReturnBatch for a loop that stops at the first moment nothing is ready
ReturnBatchWithoutWaiting ==
    /\ pc = "collecting"
    /\ completed = <<>>
    /\ batch_summary' = Summarize
    /\ pc' = "returned"
    /\ UNCHANGED <<call, units, processed_files, errors, output_structure,
                   cooker, renderer, spawned, completed, failure>>
    /\ UNCHANGED batchFrame

\* lines 244-272: every future was yielded; the four results are returned
ReturnBatch ==
    /\ pc = "collecting"
    /\ \A u \in 1..Len(units) : units[u].status = "collected"
    /\ batch_summary' = Summarize
    /\ pc' = "returned"
    /\ UNCHANGED <<call, units, processed_files, errors, output_structure,
                   cooker, renderer, spawned, completed, failure>>
    /\ UNCHANGED batchFrame

NextBatch ==
    \/ StartBatch
    \/ StartUnit
    \/ \E u \in 1..Len(units) : FinishUnit(u)
    \/ \E u \in 1..Len(units) : CollectResult(u)
    \/ \E u \in 1..Len(units) : CollectError(u)
    \/ ReturnBatch

(***************************************************************************)
(* The node entry points (src/nodes/*.py).  Each wraps its body in one     *)
(* try block; what the host sees of a failure is decided by the except     *)
(* clauses of that block.  A raise point is [message, exception, bound]:   *)
(* the text and type of what the body raises there, and (render_substance  *)
(* only) whether the local temp_image_files was assigned before it.  The   *)
(* lists are in the order the body reaches the points.                     *)
(***************************************************************************)
MaxNodeRuns == 2      \* entry-point calls followed in one behaviour

Raise(message, exception, bound) ==
    [message |-> message, exception |-> exception, temp_image_files |-> bound]

HostSees(exception, message) == [exception |-> exception, message |-> message]

CookSubstanceRaises ==
    << Raise("SBS file path cannot be empty", "ValueError", FALSE),
       Raise("Output directory cannot be empty", "ValueError", FALSE),
       Raise("SBS file not found", "FileNotFoundError", FALSE),
       Raise("Input file must have .sbs extension", "ValueError", FALSE),
       Raise("Could not find sbscooker", "SubstanceToolError", FALSE),
       Raise("Command failed", "SubstanceToolError", FALSE),
       Raise("No output files were generated", "RuntimeError", FALSE) >>

RenderSubstanceRaises ==
    << Raise("SBSAR file path cannot be empty", "ValueError", FALSE),
       Raise("Output directory cannot be empty", "ValueError", FALSE),
       Raise("SBSAR file not found", "FileNotFoundError", FALSE),
       Raise("Input file must have .sbsar extension", "ValueError", FALSE),
       Raise("Parameters must be a JSON object", "ValueError", FALSE),
       Raise("Invalid JSON in parameters", "ValueError", FALSE),
       Raise("Could not find sbsrender", "SubstanceToolError", TRUE),
       Raise("Command failed", "SubstanceToolError", TRUE) >>

ControlParametersRaises ==
    << Raise("SBSAR file path cannot be empty", "ValueError", FALSE),
       Raise("SBSAR file not found", "FileNotFoundError", FALSE),
       Raise("Input file must have .sbsar extension", "ValueError", FALSE),
       Raise("Parameter overrides must be a JSON object", "ValueError", FALSE),
       Raise("Invalid JSON in parameter overrides", "ValueError", FALSE),
       Raise("Could not find sbsrender", "SubstanceToolError", FALSE) >>

ExtractInfoRaises ==
    << Raise("SBSAR file path cannot be empty", "ValueError", FALSE),
       Raise("SBSAR file not found", "FileNotFoundError", FALSE),
       Raise("Input file must have .sbsar extension", "ValueError", FALSE),
       Raise("Could not find sbsrender", "SubstanceToolError", FALSE),
       Raise("stat failed", "OSError", FALSE),
       Raise("Command failed", "SubstanceToolError", FALSE) >>

ProcessBatchRaises ==
    << Raise("Input directory cannot be empty", "ValueError", FALSE),
       Raise("Output base directory cannot be empty", "ValueError", FALSE),
       Raise("Input directory not found", "FileNotFoundError", FALSE),
       Raise("Input path is not a directory", "ValueError", FALSE),
       Raise("Batch parameters must be a JSON array", "ValueError", FALSE),
       Raise("Invalid JSON in batch parameters", "ValueError", FALSE),
       Raise("No files found matching pattern", "ValueError", FALSE),
       Raise("No valid files found for operation mode", "ValueError", FALSE),
       Raise("Could not find sbscooker", "SubstanceToolError", FALSE) >>

\* except SubstanceToolError / except Exception of cook_substance
CookSubstanceHandler(e) ==
    IF e.exception = "SubstanceToolError"
    THEN HostSees("Exception", <<"Substance tool error: ", e.message>>)
    ELSE HostSees("Exception", <<"Cooking failed: ", e.message>>)

\* Both clauses of render_substance first loop over temp_image_files; when
\* the body raised before assigning it, reading it raises UnboundLocalError
\* (whose text names the variable) and that is what leaves the function.
RenderSubstanceHandler(e) ==
    IF ~e.temp_image_files
    THEN HostSees("UnboundLocalError", <<"temp_image_files">>)
    ELSE IF e.exception = "SubstanceToolError"
         THEN HostSees("Exception", <<"Substance tool error: ", e.message>>)
         ELSE HostSees("Exception", <<"Rendering failed: ", e.message>>)

ControlParametersHandler(e) ==
    IF e.exception = "SubstanceToolError"
    THEN HostSees("Exception", <<"Substance tool error: ", e.message>>)
    ELSE HostSees("Exception", <<"Parameter control failed: ", e.message>>)

ExtractInfoHandler(e) ==
    IF e.exception = "SubstanceToolError"
    THEN HostSees("Exception", <<"Substance tool error: ", e.message>>)
    ELSE HostSees("Exception", <<"Information extraction failed: ", e.message>>)

\* process_batch has the one clause, except Exception
ProcessBatchHandler(e) == HostSees("Exception", WrapBatchError(e.message))

(***************************************************************************)
(* The steps of each body, in the order the code runs them.  A step is     *)
(* [raises, spawn, spawn_on_raise]: its raise points (indices into the     *)
(* list above), the subprocess it launches (<<>> when none) and whether    *)
(* that subprocess was launched when the step raises.  A constructor       *)
(* raises only before its --version probe (the probe's own failure is      *)
(* swallowed by _validate_tool); an operation's "Command failed" is raised *)
(* after the tool ran.                                                     *)
(***************************************************************************)
Step(raises, spawn, on_raise) ==
    [raises |-> raises, spawn |-> spawn, spawn_on_raise |-> on_raise]

\* CookSubstanceSteps with the adapter constructed before the validation
CookSubstanceStepsConstructFirst ==
    << Step({5}, <<"--version">>, FALSE),
       Step({1, 2, 3, 4}, <<>>, FALSE),
       Step({6}, <<"cook">>, TRUE),
       Step({7}, <<>>, FALSE) >>

CookSubstanceSteps ==
    << Step({1, 2, 3, 4}, <<>>, FALSE),        \* lines 97-119: validation
       Step({5}, <<"--version">>, FALSE),      \* line 122: SubstanceCookerTool()
       Step({6}, <<"cook">>, TRUE),            \* lines 138-142: cooker.cook
       Step({7}, <<>>, FALSE) >>               \* lines 145-151: the result

\* step 2 (lines 225-258) assigns temp_image_files and saves the input images
RenderSubstanceSteps ==
    << Step({1, 2, 3, 4, 5, 6}, <<>>, FALSE),  \* lines 191-223: validation, JSON
       Step({}, <<>>, FALSE),                  \* lines 225-258: input images
       Step({7}, <<"--version">>, FALSE),      \* line 264: SubstanceRenderTool()
       Step({8}, <<"render">>, TRUE) >>        \* lines 288-292: renderer.render

\* get_info runs when extract_info is set; its failure is swallowed
ControlParametersSteps(extract_info) ==
    << Step({1, 2, 3, 4, 5}, <<>>, FALSE),     \* lines 104-128: validation, JSON
       Step({6}, <<"--version">>, FALSE),      \* line 131: SubstanceRenderTool()
       Step({}, IF extract_info THEN <<"info">> ELSE <<>>, FALSE) >>

ExtractInfoSteps ==
    << Step({1, 2, 3}, <<>>, FALSE),           \* lines 87-101: validation
       Step({4}, <<"--version">>, FALSE),      \* line 104: SubstanceRenderTool()
       Step({5}, <<>>, FALSE),                 \* line 109: _get_file_info
       Step({6}, <<"info">>, TRUE) >>          \* line 112: renderer.get_info

\* the sequential front part; the subprocesses of the units are followed in
\* the batch model (variable spawned)
ProcessBatchSteps ==
    << Step({1, 2, 3, 4, 5, 6, 7, 8}, <<>>, FALSE),
       Step({9}, <<"--version">>, FALSE) >>

StepOf(steps, point) == CHOOSE k \in 1..Len(steps) : point \in steps[k].raises

\* the subprocesses launched by the steps before step k
RECURSIVE SpawnedBefore(_, _)
SpawnedBefore(steps, k) ==
    IF k <= 1 THEN <<>>
    ELSE SpawnedBefore(steps, k - 1) \o steps[k - 1].spawn

\* the subprocesses launched by a call that raises at point, or returns (0)
SpawnedBy(steps, point) ==
    IF point = 0 THEN SpawnedBefore(steps, Len(steps) + 1)
    ELSE LET k == StepOf(steps, point)
         IN  SpawnedBefore(steps, k)
             \o (IF steps[k].spawn_on_raise THEN steps[k].spawn ELSE <<>>)

NodeIdle == node_runs = <<>>

\* What one call of an entry point can come to: its body returns (point 0),
\* or raises at one of its raise points and the handler decides what the
\* host sees.
NodeOutcomes(node, raises, handled, steps) ==
    {[node |-> node, point |-> 0, raised |-> Null, host |-> Null,
      spawned |-> SpawnedBy(steps, 0)]}
    \cup {[node |-> node, point |-> i, raised |-> raises[i], host |-> handled[i],
           spawned |-> SpawnedBy(steps, i)] : i \in 1..Len(raises)}

CookSubstance ==
    /\ Len(node_runs) < MaxNodeRuns
    /\ \E run \in NodeOutcomes("cook_substance", CookSubstanceRaises,
                    [i \in 1..Len(CookSubstanceRaises) |->
                        CookSubstanceHandler(CookSubstanceRaises[i])],
                    CookSubstanceSteps) :
           node_runs' = Append(node_runs, run)
    /\ UNCHANGED nodeFrame

\* the input images given with a parameter name: none, the first, the first two
InputImages == {{}, {1}, {1, 2}}

\* lines 230-258: the temporary files process_input_image has written when
\* the body is at point (it runs as step 2)
TempFilesWritten(images, point) ==
    IF point = 0 \/ StepOf(RenderSubstanceSteps, point) > 2 THEN images ELSE {}

\* lines 326-333, 349-354, 362-367: each loop over temp_image_files removes
\* the files; a handler that raises on reading the unbound local removes none
TempFilesRemaining(written, host) ==
    IF host # Null /\ host.exception = "UnboundLocalError" THEN written ELSE {}

RenderSubstance ==
    /\ Len(node_runs) < MaxNodeRuns
    /\ \E images \in InputImages :
       \E run \in NodeOutcomes("render_substance", RenderSubstanceRaises,
                    [i \in 1..Len(RenderSubstanceRaises) |->
                        RenderSubstanceHandler(RenderSubstanceRaises[i])],
                    RenderSubstanceSteps) :
           LET written == TempFilesWritten(images, run.point)
           IN  node_runs' = Append(node_runs,
                   run @@ [temp_written |-> written,
                           temp_remaining |-> TempFilesRemaining(written, run.host)])
    /\ UNCHANGED nodeFrame

ControlParameters ==
    /\ Len(node_runs) < MaxNodeRuns
    /\ \E extract_info \in BOOLEAN :
       \E run \in NodeOutcomes("control_parameters", ControlParametersRaises,
                    [i \in 1..Len(ControlParametersRaises) |->
                        ControlParametersHandler(ControlParametersRaises[i])],
                    ControlParametersSteps(extract_info)) :
           node_runs' = Append(node_runs, run)
    /\ UNCHANGED nodeFrame

ExtractInfo ==
    /\ Len(node_runs) < MaxNodeRuns
    /\ \E run \in NodeOutcomes("extract_info", ExtractInfoRaises,
                    [i \in 1..Len(ExtractInfoRaises) |->
                        ExtractInfoHandler(ExtractInfoRaises[i])],
                    ExtractInfoSteps) :
           node_runs' = Append(node_runs, run)
    /\ UNCHANGED nodeFrame

ProcessBatch ==
    /\ Len(node_runs) < MaxNodeRuns
    /\ \E run \in NodeOutcomes("process_batch", ProcessBatchRaises,
                    [i \in 1..Len(ProcessBatchRaises) |->
                        ProcessBatchHandler(ProcessBatchRaises[i])],
                    ProcessBatchSteps) :
           node_runs' = Append(node_runs, run)
    /\ UNCHANGED nodeFrame

NextNodes ==
    \/ CookSubstance
    \/ RenderSubstance
    \/ ControlParameters
    \/ ExtractInfo
    \/ ProcessBatch

(***************************************************************************)
(* The IS_CHANGED hooks of the cooker, renderer and parameter controller   *)
(* nodes.  The host calls the hook before each execution and re-runs the   *)
(* node when the value differs from the one of the previous call.  A value *)
(* is [kind, n]: a modification time, float('inf'), or a draw of           *)
(* random.random(); draws are numbered, so that two draws never compare    *)
(* equal.                                                                  *)
(***************************************************************************)
MaxChecks == 3        \* IS_CHANGED calls followed in one behaviour
MaxMtime == 2         \* latest modification time the file gets

Mtime(file) == [kind |-> "mtime", n |-> file.mtime]
Inf == [kind |-> "inf", n |-> 0]
RandomDraw(checks) ==
    [kind |-> "random",
     n |-> 1 + Cardinality({i \in 1..Len(checks) : checks[i].value.kind = "random"})]

\* SubstanceCooker.IS_CHANGED; path_given is the truth of sbs_file_path
CookerIsChanged(kwargs, file, checks) ==
    IF kwargs.path_given /\ file.exists THEN Mtime(file) ELSE Inf

\* SubstanceRenderer.IS_CHANGED
RendererIsChanged(kwargs, file, checks) ==
    IF kwargs.path_given /\ file.exists THEN Mtime(file) ELSE Inf

\* SubstanceParameterController.IS_CHANGED
ControllerIsChanged(kwargs, file, checks) ==
    IF kwargs.path_given /\ file.exists THEN Mtime(file)
    ELSE IF kwargs.randomize_parameters THEN RandomDraw(checks)
    ELSE Inf

ChangedIdle ==
    /\ ic_file = [exists |-> TRUE, mtime |-> 1]
    /\ ic_checks = <<>>

Check(node, kwargs, value) ==
    [node |-> node, kwargs |-> kwargs, file |-> ic_file, value |-> value]

CheckCooker ==
    /\ Len(ic_checks) < MaxChecks
    /\ \E given \in BOOLEAN :
        LET kwargs == [path_given |-> given, randomize_parameters |-> FALSE] IN
        ic_checks' = Append(ic_checks,
            Check("SubstanceCooker", kwargs,
                  CookerIsChanged(kwargs, ic_file, ic_checks)))
    /\ UNCHANGED <<ic_file, changedFrame>>

CheckRenderer ==
    /\ Len(ic_checks) < MaxChecks
    /\ \E given \in BOOLEAN :
        LET kwargs == [path_given |-> given, randomize_parameters |-> FALSE] IN
        ic_checks' = Append(ic_checks,
            Check("SubstanceRenderer", kwargs,
                  RendererIsChanged(kwargs, ic_file, ic_checks)))
    /\ UNCHANGED <<ic_file, changedFrame>>

CheckController ==
    /\ Len(ic_checks) < MaxChecks
    /\ \E given \in BOOLEAN, randomize \in BOOLEAN :
        LET kwargs == [path_given |-> given, randomize_parameters |-> randomize] IN
        ic_checks' = Append(ic_checks,
            Check("SubstanceParameterController", kwargs,
                  ControllerIsChanged(kwargs, ic_file, ic_checks)))
    /\ UNCHANGED <<ic_file, changedFrame>>

\* the environment: the input file is rewritten, removed or put back
FileModified ==
    /\ ic_file.exists
    /\ ic_file.mtime < MaxMtime
    /\ ic_file' = [ic_file EXCEPT !.mtime = @ + 1]
    /\ UNCHANGED <<ic_checks, changedFrame>>

FileRemoved ==
    /\ ic_file.exists
    /\ ic_file' = [ic_file EXCEPT !.exists = FALSE]
    /\ UNCHANGED <<ic_checks, changedFrame>>

FileCreated ==
    /\ ~ic_file.exists
    /\ ic_file.mtime < MaxMtime
    /\ ic_file' = [exists |-> TRUE, mtime |-> ic_file.mtime + 1]
    /\ UNCHANGED <<ic_checks, changedFrame>>

NextChanged ==
    \/ CheckCooker
    \/ CheckRenderer
    \/ CheckController
    \/ FileModified
    \/ FileRemoved
    \/ FileCreated

(***************************************************************************)
(* SubstanceRenderTool.get_info (sbsrender.py lines 22-70).  A line of the *)
(* tool's output is a sequence of pieces: the markers the scan looks for,  *)
(* a blank, and other text.                                                *)
(***************************************************************************)
InfoLines ==
    { <<>>,
      <<"x">>,
      <<"Graph:">>,
      <<"Graph:", " ", "x">>,
      <<" ", "Sub", "Graph:", "x", " ", "y", " ">>,
      <<"Graph:", "x", "Graph:", " ", "y">>,
      <<"Parameter:", "p", " ", "Graph:", "x">>,
      <<"Graph:", "x", " ", "Output:", "o">>,
      <<"Parameter:", " ", "p">>,
      <<"Output:", "o">> }

\* str.strip(): the blanks at both ends go
RECURSIVE LStrip(_)
LStrip(text) ==
    IF text # <<>> /\ Head(text) = " " THEN LStrip(Tail(text)) ELSE text

RECURSIVE RStrip(_)
RStrip(text) ==
    IF text # <<>> /\ text[Len(text)] = " "
    THEN RStrip(SubSeq(text, 1, Len(text) - 1))
    ELSE text

Strip(text) == RStrip(LStrip(text))

\* 'marker' in line
Contains(line, marker) == \E i \in 1..Len(line) : line[i] = marker

\* line.split(marker)[-1], for a line that contains the marker
AfterLast(line, marker) ==
    LET last == CHOOSE i \in 1..Len(line) :
                    /\ line[i] = marker
                    /\ \A j \in (i + 1)..Len(line) : line[j] # marker
    IN  SubSeq(line, last + 1, Len(line))

\* line.split(marker)[1]: the text between the first marker and the next
AfterFirst(line, marker) ==
    LET first == CHOOSE i \in 1..Len(line) :
                     /\ line[i] = marker
                     /\ \A j \in 1..(i - 1) : line[j] # marker
        rest == SubSeq(line, first + 1, Len(line))
    IN  IF Contains(rest, marker)
        THEN SubSeq(rest, 1, (CHOOSE i \in 1..Len(rest) :
                                 /\ rest[i] = marker
                                 /\ \A j \in 1..(i - 1) : rest[j] # marker) - 1)
        ELSE rest

\* ScanLine for a scan that tests 'Parameter:' and 'Output:' before 'Graph:'
\* and takes the text after the first 'Graph:'
ScanLineGraphLast(d, raw) ==
    LET line == Strip(raw)
    IN  IF Contains(line, "Parameter:") \/ Contains(line, "Output:") THEN d
        ELSE IF Contains(line, "Graph:")
        THEN [d EXCEPT !.graphs = Append(@, Strip(AfterFirst(line, "Graph:")))]
        ELSE d

\* lines 57-68: one turn of the loop
ScanLine(d, raw) ==
    LET line == Strip(raw)
    IN  IF Contains(line, "Graph:")
        THEN [d EXCEPT !.graphs = Append(@, Strip(AfterLast(line, "Graph:")))]
        ELSE IF Contains(line, "Parameter:") THEN d
        ELSE IF Contains(line, "Output:") THEN d
        ELSE d

\* lines 35-41: what get_info raises before it has an output to scan; the
\* runner is called without a timeout, so the tool cannot time out
GetInfoErrors ==
    {<<"File path cannot be empty">>, <<"File does not exist: ">>,
     <<"Input file must be .sbsar format: ">>}
    \cup {RunCommand(RendererPath, Null, p).error :
            p \in {q \in ProcessOutcomes :
                      /\ q.kind # "timeout"
                      /\ RunCommand(RendererPath, Null, q).raised}}

InfoIdle ==
    /\ info_pc = "idle"
    /\ info_stdout = <<>>
    /\ info_done = 0
    /\ info = Null
    /\ info_result = Null

\* lines 35-41: validation or the runner raises
GetInfoRaises ==
    /\ info_pc = "idle"
    /\ \E e \in GetInfoErrors :
        info_result' = [error |-> e]
    /\ info_pc' = "raised"
    /\ UNCHANGED <<info_stdout, info_done, info>>
    /\ UNCHANGED infoFrame

\* lines 41-55: the tool exits with 0; the dict is set up and stdout split
GetInfoStart ==
    /\ info_pc = "idle"
    /\ \E lines \in SeqsUpTo(InfoLines, MaxLines) :
        info_stdout' = lines
    /\ info' = [graphs |-> <<>>, parameters |-> {}, outputs |-> {}]
    /\ info_done' = 0
    /\ info_pc' = "scanning"
    /\ UNCHANGED info_result
    /\ UNCHANGED infoFrame

GetInfoScan ==
    /\ info_pc = "scanning"
    /\ info_done < Len(info_stdout)
    /\ info' = ScanLine(info, info_stdout[info_done + 1])
    /\ info_done' = info_done + 1
    /\ UNCHANGED <<info_pc, info_stdout, info_result>>
    /\ UNCHANGED infoFrame

\* line 70
GetInfoReturns ==
    /\ info_pc = "scanning"
    /\ info_done = Len(info_stdout)
    /\ info_result' = info
    /\ info_pc' = "returned"
    /\ UNCHANGED <<info_stdout, info_done, info>>
    /\ UNCHANGED infoFrame

NextInfo ==
    \/ GetInfoRaises
    \/ GetInfoStart
    \/ GetInfoScan
    \/ GetInfoReturns

(***************************************************************************)
(* control_parameters (substance_parameter_controller.py lines 143-159)    *)
(* and _generate_random_parameters (lines 199-249).  A dict is a function  *)
(* from its keys to its values.  Of the sixteen names of common_params the *)
(* model follows two; "custom" is a name that is not among them.           *)
(***************************************************************************)
CommonParams == {"roughness", "tiling"}
ParameterNames == CommonParams \cup {"custom"}
OverrideValues == {1, 2}     \* values the caller gives
RandomValues == {7, 8}       \* values the generators draw

Dicts(keys, values) == UNION {[k -> values] : k \in SUBSET keys}

\* lines 243-247: the names whose random.random() fell below the strength,
\* each with the value its generator drew
GenerateRandomParameters(drawn) == drawn

\* MergeRandom for a merge in which the random value replaces the override
MergeRandomWins(final_parameters, random_params) ==
    [k \in DOMAIN final_parameters \cup DOMAIN random_params |->
        IF k \in DOMAIN random_params THEN random_params[k]
        ELSE final_parameters[k]]

\* lines 157-159: a random value is stored only under a name not yet there
MergeRandom(final_parameters, random_params) ==
    [k \in DOMAIN final_parameters \cup DOMAIN random_params |->
        IF k \in DOMAIN final_parameters THEN final_parameters[k]
        ELSE random_params[k]]

\* lines 144-159
FinalParameters(param_overrides, randomize_parameters, drawn) ==
    IF randomize_parameters
    THEN MergeRandom(param_overrides, GenerateRandomParameters(drawn))
    ELSE param_overrides

ControlIdle ==
    /\ ctl_pc = "idle"
    /\ ctl_call = Null
    /\ ctl_result = Null

\* lines 104-131: the call ends at a raise point of its validation or at
\* the construction of the adapter
ControlRaises ==
    /\ ctl_pc = "idle"
    /\ \E overrides \in Dicts(ParameterNames, OverrideValues),
          randomize \in BOOLEAN,
          i \in 1..Len(ControlParametersRaises) :
        /\ ctl_call' = [param_overrides |-> overrides,
                        randomize_parameters |-> randomize,
                        drawn |-> <<>>]
        /\ ctl_result' = [error |-> ControlParametersHandler(ControlParametersRaises[i])]
    /\ ctl_pc' = "raised"
    /\ UNCHANGED controlFrame

\* lines 143-187: the call runs to its return
ControlReturns ==
    /\ ctl_pc = "idle"
    /\ \E overrides \in Dicts(ParameterNames, OverrideValues),
          randomize \in BOOLEAN,
          drawn \in Dicts(CommonParams, RandomValues) :
        /\ randomize \/ drawn = <<>>
        /\ ctl_call' = [param_overrides |-> overrides,
                        randomize_parameters |-> randomize,
                        drawn |-> drawn]
        /\ ctl_result' = [parameters |-> FinalParameters(overrides, randomize, drawn)]
    /\ ctl_pc' = "returned"
    /\ UNCHANGED controlFrame

NextControl ==
    \/ ControlRaises
    \/ ControlReturns

(***************************************************************************)
(* PluginConfig (config.py).  DEFAULT_CONFIG is a dict whose values are    *)
(* themselves dicts; Python's dict.copy() copies the outer dict only, so   *)
(* an entry of a copy either still refers to the dict DEFAULT_CONFIG       *)
(* refers to (shared) or holds a dict of its own.  The model follows two   *)
(* of the five sections of DEFAULT_CONFIG with one setting each, one       *)
(* section name the defaults do not have, and key paths of two keys.       *)
(***************************************************************************)
DEFAULT_CONFIG ==
    [tool_paths |-> [sbscooker |-> "None"],
     cache |-> [enabled |-> "True"]]

Shared == [shared |-> TRUE, dict |-> <<>>]
OwnDict(dict) == [shared |-> FALSE, dict |-> dict]

KeyPaths == {<<"tool_paths", "sbscooker">>, <<"cache", "enabled">>,
             <<"extra", "name">>}
ConfigValues == {"a", "b"}
ConfigFiles == {<<>>,
                [tool_paths |-> [sbscooker |-> "a"]],
                [cache |-> [enabled |-> "b"]],
                [extra |-> [name |-> "a"]]}

Put(dict, key, value) ==
    [k \in DOMAIN dict \cup {key} |-> IF k = key THEN value ELSE dict[k]]

\* the values a config dict shows to a reader
Deref(config, defaults) ==
    [k \in DOMAIN config |->
        IF config[k].shared THEN defaults[k] ELSE config[k].dict]

\* line 85: DEFAULT_CONFIG.copy()
CopyOfDefaults == [k \in DOMAIN DEFAULT_CONFIG |-> Shared]

\* lines 117-121 on a nested dict, whose values are not dicts
MergeNested(base, update) ==
    [k \in DOMAIN base \cup DOMAIN update |->
        IF k \in DOMAIN update THEN update[k] ELSE base[k]]

\* lines 115-121: what _merge_config(base, update) leaves in base ...
MergeConfigBase(base, update) ==
    [k \in DOMAIN base \cup DOMAIN update |->
        IF k \notin DOMAIN update THEN base[k]
        ELSE IF k \notin DOMAIN base THEN OwnDict(update[k])
        ELSE IF base[k].shared THEN Shared
        ELSE OwnDict(MergeNested(base[k].dict, update[k]))]

\* ... and in the dicts base shares with DEFAULT_CONFIG
MergeConfigDefaults(base, defaults, update) ==
    [k \in DOMAIN defaults |->
        IF k \in DOMAIN update /\ k \in DOMAIN base /\ base[k].shared
        THEN MergeNested(defaults[k], update[k])
        ELSE defaults[k]]

\* lines 84-86 and 102-110: PluginConfig()
NewPluginConfig ==
    /\ cfg_instance' = IF cfg_file = Null THEN CopyOfDefaults
                       ELSE MergeConfigBase(CopyOfDefaults, cfg_file)
    /\ cfg_default' = IF cfg_file = Null THEN cfg_default
                      ELSE MergeConfigDefaults(CopyOfDefaults, cfg_default, cfg_file)

\* lines 192-202: set(key_path, value) with a path of two keys
SetValue(keys, value) ==
    LET config == IF keys[1] \in DOMAIN cfg_instance THEN cfg_instance
                  ELSE Put(cfg_instance, keys[1], OwnDict(<<>>))
    IN  IF config[keys[1]].shared
        THEN /\ cfg_instance' = config
             /\ cfg_default' = [cfg_default EXCEPT
                                  ![keys[1]] = Put(@, keys[2], value)]
        ELSE /\ cfg_instance' = [config EXCEPT
                                  ![keys[1]] = OwnDict(Put(@.dict, keys[2], value))]
             /\ cfg_default' = cfg_default

ConfigIdle ==
    /\ cfg_default = DEFAULT_CONFIG
    /\ cfg_instance = Null
    /\ cfg_file = Null
    /\ cfg_last = "none"

\* lines 240-245: get_config() makes the instance on its first call
GetConfig ==
    /\ cfg_instance = Null
    /\ NewPluginConfig
    /\ cfg_last' = "get_config"
    /\ UNCHANGED cfg_file
    /\ UNCHANGED configFrame

\* lines 247-251
ReloadConfig ==
    /\ NewPluginConfig
    /\ cfg_last' = "reload_config"
    /\ UNCHANGED cfg_file
    /\ UNCHANGED configFrame

\* lines 184-202
Set ==
    /\ cfg_instance # Null
    /\ \E keys \in KeyPaths, value \in ConfigValues : SetValue(keys, value)
    /\ cfg_last' = "set"
    /\ UNCHANGED cfg_file
    /\ UNCHANGED configFrame

\* lines 216-224
SetToolPath ==
    /\ cfg_instance # Null
    /\ \E tool_name \in ToolNames, path \in ConfigValues :
           SetValue(<<"tool_paths", tool_name>>, path)
    /\ cfg_last' = "set_tool_path"
    /\ UNCHANGED cfg_file
    /\ UNCHANGED configFrame

\* lines 153-158
SaveConfig ==
    /\ cfg_instance # Null
    /\ cfg_file' = Deref(cfg_instance, cfg_default)
    /\ cfg_last' = "save_config"
    /\ UNCHANGED <<cfg_default, cfg_instance>>
    /\ UNCHANGED configFrame

\* the user writes or removes the config file
EditConfigFile ==
    /\ cfg_last # "edit"
    /\ \E content \in ConfigFiles \cup {Null} : cfg_file' = content
    /\ cfg_last' = "edit"
    /\ UNCHANGED <<cfg_default, cfg_instance>>
    /\ UNCHANGED configFrame

NextConfig ==
    \/ GetConfig
    \/ ReloadConfig
    \/ Set
    \/ SetToolPath
    \/ SaveConfig
    \/ EditConfigFile

(***************************************************************************)
(* The specifications: each runs one subsystem and leaves the others idle. *)
(***************************************************************************)
AllIdle ==
    /\ BatchIdle /\ RunnerIdle /\ CookIdle /\ OrganizeIdle /\ RenderIdle
    /\ AdapterIdle /\ NodeIdle /\ ChangedIdle /\ InfoIdle
    /\ ControlIdle
    /\ ConfigIdle

SpecBatch == AllIdle /\ [][NextBatch]_vars

SpecRunner == AllIdle /\ [][NextRunner]_vars

SpecCook == AllIdle /\ [][NextCook]_vars
SpecOrganize == AllIdle /\ [][NextOrganize]_vars
SpecRender == AllIdle /\ [][NextRender]_vars

SpecLocator == AllIdle /\ [][NextLocator]_vars
SpecAdapter == AllIdle /\ [][NextAdapter]_vars
SpecNodes == AllIdle /\ [][NextNodes]_vars
SpecChanged == AllIdle /\ [][NextChanged]_vars
SpecInfo == AllIdle /\ [][NextInfo]_vars
SpecControl == AllIdle /\ [][NextControl]_vars
SpecConfig == AllIdle /\ [][NextConfig]_vars

\* one request to one of the runner, cook() and render(): whichever starts,
\* the other two stay idle
NextTools ==
    \/ (CookIdle /\ RenderIdle /\ NextRunner)
    \/ (RunnerIdle /\ RenderIdle /\ NextCook)
    \/ (RunnerIdle /\ CookIdle /\ NextRender)

SpecTools == AllIdle /\ [][NextTools]_vars

(***************************************************************************)
(* Claims about cook(), checked under SpecCook.                            *)
(***************************************************************************)
C5_OptimizationFlagNames ==
    {Str("--crc"), Str("--full"), Str("--merge-graph"), Str("--merge-data"),
     Str("--reordering")}

\* the optimization flags of an argument vector, each with its value, in order
RECURSIVE C5_FlagsOf(_)
C5_FlagsOf(args) ==
    IF Len(args) < 2 THEN <<>>
    ELSE IF Head(args) \in C5_OptimizationFlagNames
    THEN <<[flag |-> args[1][1], value |-> args[2][1]]>> \o C5_FlagsOf(Tail(Tail(args)))
    ELSE C5_FlagsOf(Tail(args))

C5_Table ==
    [level \in 0..3 |->
        CASE level = 0 -> <<[flag |-> "--crc", value |-> "1"],
                            [flag |-> "--full", value |-> "0"]>>
          [] level = 1 -> <<[flag |-> "--full", value |-> "1"]>>
          [] level = 2 -> <<[flag |-> "--full", value |-> "1"],
                            [flag |-> "--merge-graph", value |-> "1"]>>
          [] level = 3 -> <<[flag |-> "--full", value |-> "1"],
                            [flag |-> "--merge-graph", value |-> "1"],
                            [flag |-> "--merge-data", value |-> "1"],
                            [flag |-> "--reordering", value |-> "1"]>>]

\* C5: for each optimization_level 0..3, a cook() call without extra keyword
\* options hands the runner an argument vector whose optimization flags are
\* exactly those of the level's row of the table, whatever the other options.
C5_OptimizationFlagsFollowTable ==
    (cook_pc # "idle" /\ cook_call.kwargs = <<>>) =>
        \A i \in 1..Len(cook_runs) :
            C5_FlagsOf(cook_runs[i].args) = C5_Table[cook_call.optimization_level]

C5_Witness ==
    /\ cook_pc = "returned"
    /\ cook_call.kwargs = <<>>
    /\ cook_call.optimization_level = 2
    /\ cook_call.merge /\ cook_call.no_archive /\ cook_call.verbose
    /\ Len(cook_runs) = 1
    /\ C5_FlagsOf(cook_runs[1].args) = C5_Table[2]

\* C6: a cook() call one of whose input paths is empty, does not exist or
\* does not have the extension .sbs (compared in lower case) raises an error
\* and never invokes the command runner.
C6_BadInput(path) ==
    \/ path = EmptyPath
    \/ ~path.exists
    \/ Lower(path.ext) # "sbs"

C6_InvalidInputNeverRuns ==
    (cook_pc # "idle"
     /\ \E i \in 1..Len(cook_call.input_files) : C6_BadInput(cook_call.input_files[i]))
    => /\ cook_pc = "raised"
       /\ cook_result.error \in {<<"File path cannot be empty">>,
                                 <<"File does not exist: ">>,
                                 <<"Input file must be .sbs format: ">>}
       /\ cook_runs = <<>>

C6_Witness ==
    /\ cook_pc = "raised"
    /\ Len(cook_call.input_files) = 2
    /\ ~C6_BadInput(cook_call.input_files[1])
    /\ ~cook_call.input_files[2].exists /\ cook_call.input_files[2] # EmptyPath
    /\ cook_runs = <<>>

(***************************************************************************)
(* Claims about render(), checked under SpecRender.                        *)
(***************************************************************************)
C7_PreflightErrors ==
    {<<"File path cannot be empty">>, <<"File does not exist: ">>,
     <<"Input file must be .sbsar format: ">>, <<"Image entry file not found: ">>}

C7_ArchiveIsValid ==
    /\ render_call.sbsar_file # EmptyPath
    /\ render_call.sbsar_file.exists
    /\ Lower(render_call.sbsar_file.ext) = "sbsar"

\* C7: a render() call one of whose image_entries names a file that does not
\* exist, at whatever position of the mapping and with whatever other options,
\* raises an input-validation error (the missing image entry's, unless the
\* archive itself was rejected first) and never invokes the command runner.
C7_MissingImageEntryNeverRuns ==
    (render_pc # "idle"
     /\ \E i \in 1..Len(render_call.image_entries) :
            ~render_call.image_entries[i].image.exists)
    => /\ render_pc = "raised"
       /\ render_runs = <<>>
       /\ render_result.error \in C7_PreflightErrors
       /\ C7_ArchiveIsValid => render_result.error = <<"Image entry file not found: ">>

C7_Witness ==
    /\ render_pc = "raised"
    /\ C7_ArchiveIsValid
    /\ render_call.options = RenderAllGiven
    /\ Len(render_call.image_entries) = 2
    /\ render_call.image_entries[1].image.exists
    /\ ~render_call.image_entries[2].image.exists
    /\ render_runs = <<>>
    /\ render_result.error = <<"Image entry file not found: ">>

\* the files of the output directory with the requested format's extension
\* (compared in lower case), as paths inside the directory
C8_FilesWithExtension ==
    {file @@ [dir |-> "out"] :
        file \in {f \in render_dir.files :
                     Lower(f.ext) = Lower(render_call.output_format)}}

\* C8: when render() returns, output_files lists, once each, exactly the
\* files of the output directory whose extension is the requested format's,
\* whoever wrote them: files there before the call and files written by
\* another render during the call are listed with the file this invocation
\* wrote, and nothing else is.
C8_DiscoveryIsDirectoryWide ==
    render_pc = "returned" =>
        /\ Range(render_result.output_files) = C8_FilesWithExtension
        /\ Len(render_result.output_files) = Cardinality(C8_FilesWithExtension)

C8_Witness ==
    /\ render_pc = "returned"
    /\ render_call.output_format = "png"
    /\ render_call.dir_before.files = {StalePng, OldTiff}
    /\ render_dir.files = {StalePng, OldTiff, OtherPng, NewFile("png")}
    /\ render_result.output_files =
         <<StalePng @@ [dir |-> "out"], OtherPng @@ [dir |-> "out"],
           NewFile("png") @@ [dir |-> "out"]>>

(***************************************************************************)
(* Claims about _organize_output_files, checked under SpecOrganize.        *)
(***************************************************************************)
C9_FixedOrder == <<"diffuse", "normal", "roughness", "metallic", "height",
                   "ambient_occlusion", "emission", "opacity">>

\* the category the claim names for a file: the first of the fixed order one
\* of whose patterns occurs in the lower-cased stem, else other
C9_Expected(file_path) ==
    LET matching == {j \in 1..Len(C9_FixedOrder) :
                        \E pattern \in Range(Patterns[C9_FixedOrder[j]]) :
                            Search(pattern, LowerStem(file_path))}
    IN  IF matching = {} THEN "other"
        ELSE C9_FixedOrder[CHOOSE j \in matching : \A k \in matching : j <= k]

C9_Examples ==
    {[stem |-> Brick_BaseColor, category |-> "diffuse"],
     [stem |-> Brick_Normal, category |-> "normal"],
     [stem |-> Brick_Roughness, category |-> "roughness"],
     [stem |-> Brick_Weird, category |-> "other"],
     [stem |-> Color_Height, category |-> "diffuse"]}

\* the categories of the returned dict that list the file
C9_CategoriesOf(file_path) ==
    {k \in DOMAIN org_result : file_path \in Range(org_result[k])}

\* C9: every file given to the categorizer is listed under exactly one
\* category: the first, in the order diffuse, normal, roughness, metallic,
\* height, ambient_occlusion, emission, opacity, one of whose patterns is a
\* substring of the lower-cased stem, and other when none is; the examples
\* Brick_BaseColor, Brick_Normal, Brick_Roughness, Brick_Weird and a stem with
\* both "color" and "height" land in diffuse, normal, roughness, other and
\* diffuse; and two paths with the same file name land in the same category.
C9_FirstMatchingCategory ==
    org_pc = "returned" =>
        \A i \in 1..Len(org_files) :
            LET file_path == org_files[i]
            IN  /\ C9_CategoriesOf(file_path) = {C9_Expected(file_path)}
                /\ \A e \in C9_Examples :
                       file_path.stem = e.stem =>
                           C9_CategoriesOf(file_path) = {e.category}
                /\ \A j \in 1..Len(org_files) :
                       org_files[j].stem = file_path.stem =>
                           C9_CategoriesOf(org_files[j]) = C9_CategoriesOf(file_path)

C9_Witness ==
    /\ org_pc = "returned"
    /\ Len(org_files) = 2
    /\ org_files[1].stem = Color_Height /\ org_files[1].dir = "normal_maps"
    /\ org_files[2].stem = Brick_Weird
    /\ org_result = [diffuse |-> <<org_files[1]>>, other |-> <<org_files[2]>>]

(***************************************************************************)
(* Claims about the command runner, checked under SpecRunner.              *)
(***************************************************************************)
\* the failure a message of the runner stands for, read off its prefix
C10_Classify(error) ==
    IF error[1] = "Command timed out after " THEN "timeout"
    ELSE IF error[1] = "Tool not found: " THEN "missing"
    ELSE IF error[1] = "Command execution failed: "
            /\ error[2] = "Command failed with return code "
    THEN "nonzero_exit"
    ELSE "other"

C10_FailureOf(proc) ==
    IF proc.kind = "exit"
    THEN IF proc.returncode # 0 THEN "nonzero_exit" ELSE "none"
    ELSE IF proc.kind \in {"timeout", "missing"} THEN proc.kind
    ELSE "other"

\* C10: the runner raises for a timeout, a non-zero exit and a missing
\* executable, each with a message that tells which of the three it was; the
\* message of a non-zero exit carries the exit code and the stderr text; and
\* the runner returns the captured stdout and stderr exactly when the exit
\* code is 0.
C10_FailuresAreDistinguished ==
    run_pc \in {"returned", "raised"} =>
        LET proc == run_result.process
        IN  /\ run_pc = "raised" <=> C10_FailureOf(proc) # "none"
            /\ run_pc = "raised" =>
                 /\ C10_Classify(run_result.error) = C10_FailureOf(proc)
                 /\ C10_FailureOf(proc) = "timeout" =>
                      run_result.error[2] = run_call.timeout.seconds
                 /\ C10_FailureOf(proc) = "nonzero_exit" =>
                      /\ run_result.error[3] = proc.returncode
                      /\ proc.stderr # "" =>
                           run_result.error[Len(run_result.error)] = proc.stderr
            /\ run_pc = "returned" =>
                 /\ proc.kind = "exit" /\ proc.returncode = 0
                 /\ run_result.result.stdout = proc.stdout
                 /\ run_result.result.stderr = proc.stderr

C10_Witness ==
    /\ run_pc = "raised"
    /\ run_result.process.kind = "exit"
    /\ run_result.process.returncode = 2
    /\ run_result.process.stderr = "license error"
    /\ run_result.error = <<"Command execution failed: ",
                            "Command failed with return code ", 2, ": ",
                            "license error">>


(***************************************************************************)
(* Claims about runner calls, checked under SpecTools.                     *)
(***************************************************************************)
\* C11: a call of the runner spawns the external process at most once (not at
\* all when the executable is missing), and a call that failed, by timeout,
\* non-zero exit or missing executable, has raised to its caller with that
\* count unchanged; a cook() or render() request that passes its pre-flight
\* validation makes exactly one runner call, whether the tool then fails or
\* not, and a rejected request makes none.
C11_NoRetry ==
    /\ run_pc # "idle" =>
         /\ run_call.spawns <= 1
         /\ run_pc = "raised" =>
              /\ run_result.raised
              /\ run_call.spawns = IF run_result.process.kind = "missing" THEN 0 ELSE 1
    /\ cook_pc # "idle" =>
         Len(cook_runs) =
            IF \E i \in 1..Len(cook_call.input_files) : C6_BadInput(cook_call.input_files[i])
            THEN 0 ELSE 1
    /\ render_pc # "idle" =>
         Len(render_runs) =
            IF C7_ArchiveIsValid
               /\ \A i \in 1..Len(render_call.image_entries) :
                      render_call.image_entries[i].image.exists
            THEN 1 ELSE 0

C11_Witness ==
    /\ run_pc = "raised"
    /\ run_result.process.kind = "timeout"
    /\ run_call.spawns = 1

(***************************************************************************)
(* Claims about the tool handle, checked under SpecAdapter and SpecLocator.*)
(***************************************************************************)
\* C12: every runner invocation an adapter makes, the --version probe of its
\* constructor included, is given a timeout; cook gives 300 seconds and
\* render 600.
C12_EveryInvocationHasTimeout ==
    \A i \in 1..Len(ad_runs) :
        /\ ad_runs[i].timeout # Null
        /\ ad_runs[i].args = Strs(<<"cook">>) => ad_runs[i].timeout = Seconds(300)
        /\ ad_runs[i].args = Strs(<<"render">>) => ad_runs[i].timeout = Seconds(600)

\* the positions of common_paths at which the tool is an executable file
C13_ExecutableAt ==
    {i \in 1..Len(CommonPaths) : ad_call.machine.common[CommonPaths[i]] = "executable"}

\* C13: constructed without a path of the caller's, an adapter holds the
\* PATH-lookup result when the tool is on PATH, otherwise the tool's path in
\* the first directory of the list, in list order, where it is an executable
\* file, and the constructor fails with the could-not-find error exactly when
\* there is neither; and however it was constructed, the path of an
\* adapter's handle is an executable file.
C13_LocatorFindsFirstExecutable ==
    /\ (ad_pc # "idle" /\ ~TruthyPath(ad_call.tool_path)) =>
         IF ad_call.machine.on_path
         THEN ad_pc = "ready" /\ ad_tool.tool_path = WhichPath(ad_call.tool_name)
         ELSE IF C13_ExecutableAt # {}
         THEN /\ ad_pc = "ready"
              /\ ad_tool.tool_path =
                   FullPath(CommonPaths[CHOOSE i \in C13_ExecutableAt :
                                            \A j \in C13_ExecutableAt : i <= j],
                            ad_call.tool_name, ad_call.machine.os_name)
         ELSE ad_pc = "failed" /\ ad_call.raise = "Could not find "
    /\ ad_pc = "ready" =>
         FileStateAt(ad_tool.tool_path, ad_tool.tool_name, ad_call.machine) = "executable"

C13_Witness ==
    /\ ad_pc = "ready"
    /\ ad_call.tool_path = Nothing
    /\ ad_call.machine.os_name = "nt"
    /\ ~ad_call.machine.on_path
    /\ ad_call.machine.common[CommonPaths[1]] = "absent"
    /\ ad_call.machine.common[CommonPaths[2]] = "absent"
    /\ ad_call.machine.common[CommonPaths[3]] = "not_executable"
    /\ ad_call.machine.common["/usr/local/bin"] = "executable"
    /\ ad_call.machine.common["/usr/bin"] = "executable"
    /\ ad_tool = [tool_name |-> "sbsrender",
                  tool_path |-> <<"/usr/local/bin", "\\", "sbsrender", ".exe">>]

\* C20: the locator runs at most once for an adapter, in its constructor and
\* only when the caller gave no path, and after any operations of the
\* adapter, returned or raised, the handle is the one the constructor built
\* and the locator has not run again.
C20_HandleFixedAtConstruction ==
    /\ ad_locator_runs <= 1
    /\ ad_pc = "ready" =>
         /\ ad_tool = ad_call.built
         /\ ad_locator_runs = IF TruthyPath(ad_call.tool_path) THEN 0 ELSE 1
         /\ ad_runs[1].args = VersionArgs
         /\ Len(ad_runs) <= 1 + Len(ad_ops)

C20_Witness ==
    /\ ad_pc = "ready"
    /\ ad_call.tool_path = Nothing
    /\ Len(ad_ops) = 2
    /\ ad_ops[1] = [op |-> "render", outcome |-> "missing", ends |-> "raised"]
    /\ ad_ops[2] = [op |-> "get_info", outcome |-> "exit", ends |-> "returned"]
    /\ ad_locator_runs = 1
    /\ ad_tool = ad_call.built

(***************************************************************************)
(* C14: every failure of an entry point reaches the host as an exception   *)
(* whose message starts with "Substance tool error: " when the body raised *)
(* a SubstanceToolError, and with the entry point's own prefix otherwise.  *)
(***************************************************************************)
C14_OwnPrefix(node) ==
    CASE node = "cook_substance" -> "Cooking failed: "
      [] node = "render_substance" -> "Rendering failed: "
      [] node = "control_parameters" -> "Parameter control failed: "
      [] node = "extract_info" -> "Information extraction failed: "
      [] node = "process_batch" -> "Batch processing failed: "

C14_FailuresCarryCategoryPrefix ==
    \A i \in 1..Len(node_runs) :
        LET run == node_runs[i] IN
        run.raised # Null =>
            run.host.message[1] =
                IF run.raised.exception = "SubstanceToolError"
                THEN "Substance tool error: "
                ELSE C14_OwnPrefix(run.node)

(***************************************************************************)
(* C15: IS_CHANGED is keyed on the input file's modification time, and     *)
(* returns a value that differs from the one of the node's previous check  *)
(* whenever the input file is missing and, for the parameter controller,   *)
(* whenever randomize_parameters is on, also when the archive exists and   *)
(* was not modified.                                                       *)
(***************************************************************************)
C15_PreviousCheck(i, j) ==
    /\ i < j
    /\ ic_checks[i].node = ic_checks[j].node
    /\ ic_checks[i].kwargs = ic_checks[j].kwargs
    /\ \A k \in (i + 1)..(j - 1) :
           \/ ic_checks[k].node # ic_checks[j].node
           \/ ic_checks[k].kwargs # ic_checks[j].kwargs

C15_AlwaysStale(check) ==
    \/ check.kwargs.path_given /\ ~check.file.exists
    \/ /\ check.node = "SubstanceParameterController"
       /\ check.kwargs.randomize_parameters

C15_KeyedOnMtime(check) ==
    check.kwargs.path_given /\ check.file.exists /\ ~C15_AlwaysStale(check)

C15_StaleWhenMissingOrRandomized ==
    \A i, j \in 1..Len(ic_checks) :
        C15_PreviousCheck(i, j) =>
            /\ C15_AlwaysStale(ic_checks[j]) =>
                   ic_checks[j].value # ic_checks[i].value
            /\ C15_KeyedOnMtime(ic_checks[i]) /\ C15_KeyedOnMtime(ic_checks[j]) =>
                   ((ic_checks[j].value = ic_checks[i].value)
                    <=> (ic_checks[j].file.mtime = ic_checks[i].file.mtime))

(***************************************************************************)
(* C16: any two distinct units of one process_batch call write into        *)
(* distinct output directories, and no unit's rendered_files holds a file  *)
(* that another unit produced.                                             *)
(***************************************************************************)
C16_DirOf(u) ==
    OutputDirOf(units[u].file, units[u].params, units[u].index,
                call.organize_by_material)

C16_UnitsWriteApart ==
    pc # "idle" =>
        /\ \A u, v \in 1..Len(units) : u # v => C16_DirOf(u) # C16_DirOf(v)
        /\ \A u \in 1..Len(units) :
               units[u].outcome = "returned" =>
                   units[u].result.rendered_files \subseteq {u}

(***************************************************************************)
(* C17: during process_batch at most max_workers units run at the same     *)
(* time; a worker's step leaves the adapters and the processed, error and  *)
(* output-structure collections as they are, and those collections change  *)
(* only when the calling thread collects a finished unit.                  *)
(***************************************************************************)
C17_WorkerStep ==
    \E u \in 1..Len(units) :
        units[u].status \in {"queued", "running"} /\ units'[u].status # "collected"
                                                  /\ units'[u] # units[u]

C17_CallerCollects ==
    \E u \in 1..Len(units) :
        units[u].status = "done" /\ units'[u].status = "collected"

C17_Collections == <<processed_files, errors, output_structure>>

C17_BoundedPoolNoSharedState ==
    /\ [](pc = "collecting" => Cardinality(Running) <= call.max_workers)
    /\ [][/\ C17_WorkerStep => UNCHANGED <<C17_Collections, cooker, renderer>>
          /\ C17_Collections' # C17_Collections => C17_CallerCollects]_vars

C17_Witness ==
    /\ pc = "collecting"
    /\ call.max_workers = DefaultMaxWorkers
    /\ Cardinality(Running) = call.max_workers
    /\ Queued # {}
    /\ processed_files # <<>>

(***************************************************************************)
(* C18: every unit handed to the pool finishes and is collected exactly    *)
(* once; process_batch returns only after all of them have finished, and   *)
(* in the summary successfully_processed + errors equals                   *)
(* total_expected_outputs.                                                 *)
(***************************************************************************)
C18_TimesCollected(u) ==
    Cardinality({i \in 1..Len(processed_files) : processed_files[i] = u})
    + Cardinality({i \in 1..Len(errors) :
                      /\ errors[i][2] = units[u].file
                      /\ errors[i][3] = units[u].index})

C18_EveryUnitCollectedOnce ==
    /\ pc = "collecting" =>
           \A u \in 1..Len(units) :
               C18_TimesCollected(u) = IF units[u].status = "collected" THEN 1 ELSE 0
    /\ pc = "returned" =>
           /\ \A u \in 1..Len(units) :
                  /\ units[u].status = "collected"
                  /\ units[u].outcome \in {"returned", "raised"}
                  /\ C18_TimesCollected(u) = 1
           /\ batch_summary.total_expected_outputs = Len(units)
           /\ batch_summary.successfully_processed + batch_summary.errors
                  = batch_summary.total_expected_outputs

C18_Witness ==
    /\ pc = "returned"
    /\ Len(units) >= 3
    /\ processed_files # <<>>
    /\ errors # <<>>

(***************************************************************************)
(* C19: after the cooker exits with code 0, cook() lists exactly the       *)
(* expected archive names that exist in the output directory when it       *)
(* probes: {output_name}.sbsar when merge and output_name are both set,    *)
(* otherwise per input {output_name}.sbsar when output_name is set and     *)
(* {stem}.sbsar when not.  When the tool wrote its archive under another   *)
(* name, cook() still returns success = true, with an empty list.          *)
(***************************************************************************)
C19_ExpectedNames ==
    IF cook_call.merge /\ cook_call.output_name # None
    THEN <<cook_call.output_name>>
    ELSE [i \in 1..Len(cook_result.input_files) |->
            IF cook_call.output_name # None THEN cook_call.output_name
            ELSE cook_result.input_files[i].stem]

C19_OnDisk(name) == name \in cook_dir.archives

C19_WroteOnlyUnexpected ==
    /\ cook_dir.archives # {}
    /\ \A i \in 1..Len(C19_ExpectedNames) : ~C19_OnDisk(C19_ExpectedNames[i])

C21_ValidationPoints(node) ==
    CASE node = "cook_substance" -> 1..4
      [] node = "render_substance" -> 1..6
      [] node = "control_parameters" -> 1..5
      [] node = "extract_info" -> 1..3
      [] OTHER -> {}

C21_SingleFileNodes ==
    {"cook_substance", "render_substance", "control_parameters", "extract_info"}

C21_ValidationBeforeConstruction ==
    \A i \in 1..Len(node_runs) :
        LET run == node_runs[i] IN
        run.node \in C21_SingleFileNodes =>
            /\ run.point \in C21_ValidationPoints(run.node) => run.spawned = <<>>
            /\ run.spawned # <<>> =>
                   /\ run.spawned[1] = "--version"
                   /\ \A p \in C21_ValidationPoints(run.node) : run.point # p

C21_Witness ==
    /\ Len(node_runs) = 2
    /\ node_runs[1].node = "cook_substance"
    /\ node_runs[1].point = 4
    /\ node_runs[1].spawned = <<>>
    /\ node_runs[2].node = "render_substance"
    /\ node_runs[2].point = 8
    /\ node_runs[2].spawned = <<"--version", "render">>

(***************************************************************************)
(* C24: whenever render_substance finishes, by returning or by raising at  *)
(* any point, none of the temporary input-image files it wrote remains,    *)
(* and the exception it raises is the wrapped host-visible error, not an   *)
(* error of the cleanup code.                                              *)
(***************************************************************************)
C24_Wrapped(host) ==
    /\ host.exception = "Exception"
    /\ host.message[1] \in {"Substance tool error: ", "Rendering failed: "}

C24_CleanupOnEveryExit ==
    \A i \in 1..Len(node_runs) :
        LET run == node_runs[i] IN
        run.node = "render_substance" =>
            /\ run.temp_remaining = {}
            /\ run.raised # Null => C24_Wrapped(run.host)

(***************************************************************************)
(* C22: without extra keyword options render() builds its argument vector  *)
(* in the order render --input <archive> --output-path <dir>               *)
(* --output-format <fmt>, then --output-name, --output-bit-depth,          *)
(* --input-graph, --input-graph-output, one --set-value name@value per     *)
(* parameter, one --set-entry name@path per image entry, --use-preset,     *)
(* --cpu-count, --memory-budget, --output-size w,h and last exactly one of *)
(* --verbose and --quiet; an optional flag is there if and only if its     *)
(* option was given (a value Python takes for true), and --output-size     *)
(* carries the resolution twice.                                           *)
(***************************************************************************)
C22_Order ==
    <<"render", "--input", "--output-path", "--output-format", "--output-name",
      "--output-bit-depth", "--input-graph", "--input-graph-output",
      "--set-value", "--set-entry", "--use-preset", "--cpu-count",
      "--memory-budget", "--output-size", "--verbose", "--quiet">>

C22_Rank == [word \in Range(C22_Order) |->
                CHOOSE r \in 1..Len(C22_Order) : C22_Order[r] = word]

C22_IsWord(token) == Len(token) = 1 /\ token[1] \in Range(C22_Order)

C22_Repeatable == {"--set-value", "--set-entry"}

\* the words of the vector are in the documented order; only --set-value
\* and --set-entry repeat
C22_InOrder(args) ==
    LET words == SelectIdx(args, {i \in 1..Len(args) : C22_IsWord(args[i])})
    IN  \A k \in 1..(Len(words) - 1) :
            \/ C22_Rank[words[k][1]] < C22_Rank[words[k + 1][1]]
            \/ words[k] = words[k + 1] /\ words[k][1] \in C22_Repeatable

C22_Has(args, flag) == \E i \in 1..Len(args) : args[i] = <<flag>>

\* flag is in args exactly when given holds, and then once, followed by value
C22_Optional(args, flag, given, value) ==
    /\ C22_Has(args, flag) <=> given
    /\ \A i \in 1..Len(args) :
           args[i] = <<flag>> =>
               /\ i < Len(args) /\ args[i + 1] = value
               /\ \A j \in 1..Len(args) : args[j] = <<flag>> => j = i

\* the tokens that follow the occurrences of flag, in order
C22_ValuesOf(args, flag) ==
    SelectIdx(args, {i \in 2..Len(args) : args[i - 1] = <<flag>>})

C22_Documented(c, args) ==
    LET o == c.options IN
    /\ Len(args) >= 8
    /\ SubSeq(args, 1, 2) = <<<<"render">>, <<"--input">>>>
    /\ args[3] = PathStr(Resolve(c.sbsar_file))
    /\ SubSeq(args, 4, 7) =
           <<<<"--output-path">>, <<"out">>, <<"--output-format">>, <<c.output_format>>>>
    /\ C22_InOrder(args)
    /\ C22_Optional(args, "--output-name", TruthyStr(o.output_name), <<o.output_name>>)
    /\ C22_Optional(args, "--output-bit-depth", TruthyStr(o.bit_depth), <<o.bit_depth>>)
    /\ C22_Optional(args, "--input-graph", TruthyStr(o.graph_selection),
                    <<o.graph_selection>>)
    /\ C22_Optional(args, "--input-graph-output", TruthyStr(o.output_selection),
                    <<o.output_selection>>)
    /\ C22_Optional(args, "--use-preset", TruthyStr(o.preset_name), <<o.preset_name>>)
    /\ C22_Optional(args, "--cpu-count", TruthyInt(o.cpu_count),
                    IF TruthyInt(o.cpu_count) THEN <<IntStr(o.cpu_count[1])>> ELSE <<>>)
    /\ C22_Optional(args, "--memory-budget", TruthyInt(o.memory_budget),
                    IF TruthyInt(o.memory_budget) THEN <<IntStr(o.memory_budget[1])>>
                    ELSE <<>>)
    /\ C22_Optional(args, "--output-size", TruthyInt(o.resolution),
                    IF TruthyInt(o.resolution)
                    THEN <<IntStr(o.resolution[1]), ",", IntStr(o.resolution[1])>>
                    ELSE <<>>)
    /\ C22_ValuesOf(args, "--set-value") =
           [k \in 1..Len(o.parameters) |->
               <<o.parameters[k].name, "@", o.parameters[k].value>>]
    /\ C22_ValuesOf(args, "--set-entry") =
           [k \in 1..Len(c.image_entries) |->
               <<c.image_entries[k].name, "@", c.image_entries[k].image.file>>]
    /\ args[Len(args)] = IF o.verbose THEN <<"--verbose">> ELSE <<"--quiet">>
    /\ ~(C22_Has(args, "--verbose") /\ C22_Has(args, "--quiet"))
    /\ \A i \in 1..(Len(args) - 1) : args[i] \notin {<<"--verbose">>, <<"--quiet">>}

C22_ArgumentOrder ==
    (render_runs # <<>> /\ render_call.options.kwargs = <<>>) =>
        C22_Documented(render_call, render_runs[1].args)

C22_Witness ==
    /\ render_runs # <<>>
    /\ render_call.options = [RenderAllGiven EXCEPT !.kwargs = <<>>]
    /\ Len(render_call.image_entries) = 2
    /\ Len(render_runs[1].args) = 32

(***************************************************************************)
(* C23: get_info scans stdout line by line; every line containing "Graph:" *)
(* adds the trimmed text after the last "Graph:" to graphs, in line order, *)
(* also when the line contains "Parameter:" or "Output:" as well; the      *)
(* parameters and outputs of the result are empty for every output.        *)
(***************************************************************************)
C23_GraphLines(lines) ==
    SelectIdx(lines, {i \in 1..Len(lines) : \E k \in 1..Len(lines[i]) :
                                                lines[i][k] = "Graph:"})

\* the pieces after the last "Graph:" of a line, without the blanks around
C23_Name(line) ==
    LET after == {k \in 1..Len(line) :
                     \A j \in k..Len(line) : line[j] # "Graph:"}
        text == {k \in after : line[k] # " "}
    IN  IF text = {} THEN <<>>
        ELSE LET lo == CHOOSE k \in text : \A j \in text : k <= j
                 hi == CHOOSE k \in text : \A j \in text : j <= k
             IN  SubSeq(line, lo, hi)

C23_GraphsFromGraphLines ==
    /\ info_pc \in {"scanning", "returned"} =>
           /\ info.parameters = {}
           /\ info.outputs = {}
           /\ LET seen == C23_GraphLines(SubSeq(info_stdout, 1, info_done))
              IN  info.graphs = [i \in 1..Len(seen) |-> C23_Name(seen[i])]
    /\ info_pc = "returned" =>
           /\ info_done = Len(info_stdout)
           /\ info_result = info

C23_Witness ==
    /\ info_pc = "returned"
    /\ info_stdout = << <<"Parameter:", "p", " ", "Graph:", "x">>,
                        <<"Graph:", "x", "Graph:", " ", "y">> >>
    /\ info_result.graphs = << <<"x">>, <<"y">> >>
    /\ info_result.parameters = {}

(***************************************************************************)
(* C25: a cook() or render() call that fails pre-flight validation (input  *)
(* missing or of the wrong extension, image-entry file missing) leaves the *)
(* filesystem as it was: the output directory is not created and no file   *)
(* is written.                                                             *)
(***************************************************************************)
C25_CookFailedPreflight == cook_pc = "raised" /\ cook_runs = <<>>

C25_RenderFailedPreflight == render_pc = "raised" /\ render_runs = <<>>

C25_FailedPreflightLeavesDisk ==
    /\ C25_CookFailedPreflight => cook_dir = cook_call.dir_before
    /\ C25_RenderFailedPreflight => render_dir = render_call.dir_before

(***************************************************************************)
(* C26: for every successful cook(), whatever the input list, merge and    *)
(* output_name, output_files holds no path twice, has at most one entry    *)
(* per input file, and every path in it names an existing .sbsar file of   *)
(* the output directory.                                                   *)
(***************************************************************************)
C26_NoDuplicate(files) ==
    \A i, j \in 1..Len(files) : files[i] = files[j] => i = j

C26_OutputFilesWellFormed ==
    cook_pc = "returned" =>
        /\ C26_NoDuplicate(cook_result.output_files)
        /\ Len(cook_result.output_files) <= Len(cook_result.input_files)
        /\ \A i \in 1..Len(cook_result.output_files) :
               /\ cook_result.output_files[i].ext = "sbsar"
               /\ cook_result.output_files[i].stem \in cook_dir.archives

(***************************************************************************)
(* C29: in control_parameters the explicit overrides win over the          *)
(* randomization: every key of parameter_overrides is in the resulting     *)
(* parameters with the override's value, randomization only adds keys the  *)
(* overrides do not have, and with randomize_parameters false the result   *)
(* equals the overrides.                                                   *)
(***************************************************************************)
C29_OverridesWin ==
    ctl_pc = "returned" =>
        LET given == ctl_call.param_overrides
            final == ctl_result.parameters
        IN  /\ \A k \in DOMAIN given : k \in DOMAIN final /\ final[k] = given[k]
            /\ \A k \in DOMAIN final \ DOMAIN given :
                   /\ ctl_call.randomize_parameters
                   /\ k \in DOMAIN ctl_call.drawn
                   /\ final[k] = ctl_call.drawn[k]
            /\ ~ctl_call.randomize_parameters => final = given

C29_Witness ==
    /\ ctl_pc = "returned"
    /\ ctl_call.randomize_parameters
    /\ DOMAIN ctl_call.param_overrides = {"roughness", "custom"}
    /\ DOMAIN ctl_call.drawn = {"roughness", "tiling"}
    /\ ctl_result.parameters["roughness"] = ctl_call.param_overrides["roughness"]
    /\ ctl_result.parameters["tiling"] = ctl_call.drawn["tiling"]

(***************************************************************************)
(* C30: the built-in default configuration is never modified: after any    *)
(* sequence of set(), set_tool_path(), config-file merges and              *)
(* reload_config() calls DEFAULT_CONFIG holds its original values, and the *)
(* PluginConfig made by reload_config() shows the defaults merged with the *)
(* config file and nothing set on an earlier instance and never saved.     *)
(***************************************************************************)
C30_DefaultsMergedWithFile ==
    LET update == IF cfg_file = Null THEN <<>> ELSE cfg_file
    IN  [k \in DOMAIN DEFAULT_CONFIG \cup DOMAIN update |->
            IF k \notin DOMAIN update THEN DEFAULT_CONFIG[k]
            ELSE IF k \notin DOMAIN DEFAULT_CONFIG THEN update[k]
            ELSE MergeNested(DEFAULT_CONFIG[k], update[k])]

C30_DefaultsHoldOriginalValues == cfg_default = DEFAULT_CONFIG

C30_ReloadShowsDefaultsAndFile ==
    cfg_last = "reload_config" =>
        Deref(cfg_instance, cfg_default) = C30_DefaultsMergedWithFile

C30_DefaultsNeverModified ==
    /\ C30_DefaultsHoldOriginalValues
    /\ C30_ReloadShowsDefaultsAndFile

(***************************************************************************)
(* C27: every record a worker of the batch returns is consistent: success  *)
(* true means error is None and, in the cooking modes, cooked_file names   *)
(* the archive the cook step found on disk; success false means error is a *)
(* non-empty message; rendered_files is non-empty only if the unit's       *)
(* render step ran to its end without error.                               *)
(***************************************************************************)
C27_Consistent(unit) ==
    LET result == unit.result
    IN  /\ result.success =>
            /\ result.error = None
            /\ call.operation_mode \in CookModes =>
                 /\ unit.ran.cook = "ok"
                 /\ result.cooked_file =
                      [dir |-> result.output_directory,
                       stem |-> unit.file.stem, ext |-> "sbsar"]
        /\ ~result.success => result.error \notin {None, ""}
        /\ result.rendered_files # {} => unit.ran.render = "ok"

C27_RecordsAreConsistent ==
    \A u \in 1..Len(units) :
        units[u].outcome = "returned" => C27_Consistent(units[u])

C27_Witness ==
    /\ processed_files # <<>>
    /\ call.operation_mode = "cook_and_render"
    /\ \E u, v \in 1..Len(processed_files) :
        LET good == units[processed_files[u]]
            bad == units[processed_files[v]]
        IN  /\ good.result.success
            /\ good.result.cooked_file # Null
            /\ good.result.rendered_files # {}
            /\ ~bad.result.success
            /\ bad.ran.render = "raise"
            /\ bad.result.cooked_file # Null
            /\ bad.result.rendered_files = {}

(***************************************************************************)
(* C28: the organized outputs partition the discovered files: every file   *)
(* is in exactly one category list, no list is empty, every key is one of  *)
(* the nine categories, and a list keeps its files in discovery order.     *)
(***************************************************************************)
C28_Listed(category) ==
    {org_result[category][j] : j \in 1..Len(org_result[category])}

C28_OrganizedIsPartition ==
    org_pc = "returned" =>
        /\ DOMAIN org_result \subseteq {Categories[i] : i \in 1..Len(Categories)}
        /\ Len(Categories) = 9
        /\ \A k \in DOMAIN org_result : org_result[k] # <<>>
        /\ \A i \in 1..Len(org_files) :
               Cardinality({k \in DOMAIN org_result :
                               org_files[i] \in C28_Listed(k)}) = 1
        /\ \A k \in DOMAIN org_result :
               org_result[k] =
                   SelectIdx(org_files,
                             {i \in 1..Len(org_files) : org_files[i] \in C28_Listed(k)})

C28_Witness ==
    /\ org_pc = "returned"
    /\ org_files = <<[dir |-> "out", stem |-> Color_Height, ext |-> "png"],
                     [dir |-> "out", stem |-> Brick_Weird, ext |-> "png"]>>
    /\ DOMAIN org_result = {"diffuse", "other"}
    /\ org_result["diffuse"] = <<org_files[1]>>
    /\ org_result["other"] = <<org_files[2]>>

(***************************************************************************)
(* Claims about process_batch, checked under SpecBatch.                    *)
(***************************************************************************)

SucceededUnits ==
    {u \in 1..Len(units) : units[u].outcome = "returned" /\ units[u].result.success}

\* C1: when process_batch has returned, successfully_processed is the number
\* of units whose cook/render pipeline succeeded, errors is the number of
\* units that failed, and success_rate is successfully_processed out of
\* total_expected_outputs as a percentage with one decimal.
C1_SummaryCountsOutcomes ==
    pc = "returned" =>
        /\ batch_summary.total_expected_outputs = Len(units)
        /\ batch_summary.successfully_processed = Cardinality(SucceededUnits)
        /\ batch_summary.errors = Cardinality(FailedUnits)
        /\ batch_summary.success_rate =
             FormatRate(Cardinality(SucceededUnits), Len(units))

\* C2: a failing unit does not abort the batch.  The call raises only before
\* any unit is scheduled; while it collects, some step can always be taken,
\* whatever has failed; and when it returns every scheduled unit has run and
\* is reported exactly once, as a result or as an error.
C2_FailureDoesNotAbortBatch ==
    /\ pc = "raised" => units = <<>> /\ batch_summary = Null
    /\ pc = "collecting" => ENABLED NextBatch
    /\ pc = "returned" =>
         /\ batch_summary # Null
         /\ \A u \in 1..Len(units) :
              /\ units[u].outcome # None
              /\ Cardinality({i \in 1..Len(processed_files) : processed_files[i] = u})
                   + Cardinality({i \in 1..Len(errors) :
                                    errors[i][2] = units[u].file
                                    /\ errors[i][3] = units[u].index}) = 1

C2_Witness ==
    /\ pc = "returned"
    /\ Len(units) = 4
    /\ Cardinality(FailedUnits) = 1
    /\ Cardinality(SucceededUnits) = 3

\* C3: the call fails as a whole, with no unit scheduled, no adapter
\* constructed and no subprocess spawned, when the pattern matches no file,
\* when no matched file has the extension the operation mode requires, or
\* when batch_parameters (given, not blank) is not JSON or not a JSON array.
C3_NoMatchOrBadPayload ==
    pc # "idle" /\ (\/ call.matched = <<>>
                    \/ /\ call.operation_mode \in {"cook_only", "cook_and_render"}
                       /\ \A f \in Range(call.matched) : Lower(f.ext) # "sbs"
                    \/ /\ call.operation_mode = "render_only"
                       /\ \A f \in Range(call.matched) : Lower(f.ext) # "sbsar"
                    \/ call.batch_parameters.text = "invalid"
                    \/ /\ call.batch_parameters.text = "json"
                       /\ call.batch_parameters.value.type # "array")

C3_InvalidCallFailsBeforeAnyWork ==
    C3_NoMatchOrBadPayload =>
        /\ pc = "raised"
        /\ failure # <<>> /\ failure[1] = "Batch processing failed: "
        /\ units = <<>>
        /\ ~cooker /\ ~renderer
        /\ spawned = 0

C3_Witness ==
    /\ pc = "raised"
    /\ call.directory = "ok"
    /\ call.matched # <<>>
    /\ call.batch_parameters.text = "json"
    /\ call.batch_parameters.value.type # "array"
    /\ units = <<>> /\ spawned = 0

\* C4: the units scheduled are exactly the pairs (eligible file, parameter-set
\* index), or (eligible file, 0) with empty parameters when no parameter sets
\* are given, each once; the eligible files are the matches whose extension
\* (compared in lower case, as the code does) is .sbs for cook_only and
\* cook_and_render and .sbsar for render_only; and total_expected_outputs is
\* files x max(parameter sets, 1).
C4_EligibleFiles ==
    {f \in Range(call.matched) :
        Lower(f.ext) = (IF call.operation_mode = "render_only" THEN "sbsar" ELSE "sbs")}

C4_ExpectedPairs ==
    IF call.parameter_sets = <<>>
    THEN {<<f, 0, EmptyParams>> : f \in C4_EligibleFiles}
    ELSE {<<f, i - 1, call.parameter_sets[i]>> :
            f \in C4_EligibleFiles, i \in 1..Len(call.parameter_sets)}

C4_OneUnitPerFileAndParameterSet ==
    pc \in {"collecting", "returned"} =>
        /\ {<<units[u].file, units[u].index, units[u].params>> : u \in 1..Len(units)}
             = C4_ExpectedPairs
        /\ Len(units) = Cardinality(C4_ExpectedPairs)
        /\ Len(units) = Cardinality(C4_EligibleFiles)
                          * (IF Len(call.parameter_sets) >= 1
                             THEN Len(call.parameter_sets) ELSE 1)
        /\ pc = "returned" => batch_summary.total_expected_outputs = Len(units)

C4_Witness ==
    /\ pc = "returned"
    /\ Len(call.matched) = 3
    /\ Cardinality(C4_EligibleFiles) = 2
    /\ Len(call.parameter_sets) = 2
    /\ Len(units) = 4

====
